---- MODULE Spec2Model ----
(***************************************************************************)
(* State-machine model of the DevOps dashboard:                            *)
(*   backend/server.js         sampling ticks, start-up initialization,    *)
(*                             alert evaluation, health checks, API reads  *)
(*                             and the system-info route                   *)
(*   backend/reportGenerator.js  report aggregation, report history and    *)
(*                             report files                                *)
(*                             (its text is carried in src/test-api.bat)   *)
(*   frontend/src/index.js     the page's polling loop                     *)
(*                                                                         *)
(* Units.  Time is counted in whole seconds since the process started      *)
(* (Date.now() / 1000).  Percentages are integers counted in thousandths   *)
(* of a percent, so 80% is 80000 and 80.1% is 80100; Math.round(x*10)/10   *)
(* and Math.round(x*100)/100 are real roundings at this resolution.        *)
(*                                                                         *)
(* Every action is one run-to-completion segment of a Node.js handler:     *)
(* from the event that starts it (timer, promise settlement, request) up   *)
(* to the next await or the end of the handler.                            *)
(***************************************************************************)
EXTENDS Integers, Sequences, FiniteSets, TLC

VARIABLES
    now,             \* wall clock, seconds since process start
    nextMetrics,     \* next due time of metricsInterval (server.js:255)
    nextServices,    \* next due time of servicesInterval (server.js:261)
    metricsHistory,  \* server.js:64
    currentAlerts,   \* server.js:68
    serviceStatus,   \* server.js:72
    cachedDiskData,  \* server.js:75
    lastDiskCheck,   \* server.js:76
    initPhase,       \* position of the start-up IIFE (server.js:282-286)
    ticks,           \* collectMetrics invocations suspended at an await
    reportHistory,   \* reportGenerator.js: let reportHistory = []
    resp,            \* the HTTP response sent by the step just taken, if any
    ev,              \* (history) what the step just taken was
    nAppended,       \* (history) samples appended by sampling ticks so far
    nGenerated,      \* (history) reports generated so far
    anom,            \* (history) host reads that were slow, failed or off-nominal
    saves,           \* saveReportToFile invocations suspended at an await
    fs,              \* the reports directory on disk
    saveFailed,      \* (history) a save has ended in its catch block
    cachedSystemInfo,     \* server.js:77
    lastSystemInfoCheck,  \* server.js:78
    sysReqs,         \* GET /api/system-info requests suspended at the await
    nSysReqs,        \* (history) system-info requests received so far
    sysAnom,         \* (history) identity reads that were slow or failed
    proc,            \* the Node.js process and its three intervals
    client,          \* the dashboard page (frontend/src/index.js)
    lateReads        \* host reads still pending after their timer has fired

vars == <<now, nextMetrics, nextServices, metricsHistory, currentAlerts,
          serviceStatus, cachedDiskData, lastDiskCheck, initPhase, ticks,
          reportHistory, resp, ev, nAppended, nGenerated, anom,
          saves, fs, saveFailed, cachedSystemInfo, lastSystemInfoCheck, sysReqs,
          nSysReqs, sysAnom, proc, client, lateReads>>

saveVars == <<saves, fs, saveFailed>>
sysVars  == <<cachedSystemInfo, lastSystemInfoCheck, sysReqs, nSysReqs, sysAnom>>

(***************************************************************************)
(* Program constants                                                       *)
(***************************************************************************)
HistoryCap      == 20    \* metricsHistory.length > 20
ReportCap       == 24    \* reportHistory.length > 24
MetricsPeriod   == 3     \* setInterval(..., 3000)
ServicesPeriod  == 10    \* setInterval(..., 10000)
CpuMemTimeout   == 3     \* setTimeout(reject 'Timeout', 3000)
DiskTimeout     == 5     \* setTimeout(reject 'Disk timeout', 5000)
DiskStaleness   == 30    \* (now - lastDiskCheck) > 30000
InitSamples     == 10    \* for (let i = 0; i < 10; i++)
CpuThreshold    == 80    \* metric.cpu > 80
MemoryThreshold == 85    \* metric.memory > 85
DiskThreshold   == 90    \* metric.disk > 90
SysInfoTimeout   == 5    \* setTimeout(reject 'Timeout', 5000)
SysInfoStaleness == 60   \* (now - lastSystemInfoCheck) > 60000
PollPeriod       == 5    \* index.js: setInterval(..., 5000)
InfoPeriod       == 60   \* index.js: (now - systemInfoLastFetch) > 60000
RetryLimit       == 5    \* index.js: retryCount < 5

(***************************************************************************)
(* Bounds of the exploration                                               *)
(***************************************************************************)
MaxTime       == 7    \* Spec: the clock stops here (ticks start at 3 and 6)
MaxAnomalies  == 2    \* Spec: host reads that may be slow, fail or be off-nominal
MaxTimeMid    == 36   \* SpecMid: 12 sampling ticks, the buffer is full after 10
MaxAnomMid    == 1    \* SpecMid: anomalous host reads
MaxTimeLong   == 64   \* SpecLong: 21 sampling ticks
MaxAnomLong   == 1    \* SpecLong: anomalous host reads
MaxTimeAlerts == 3    \* SpecAlerts: one sampling tick
MaxAnomAlerts == 2    \* SpecAlerts: an off-nominal cpu/memory and disk answer
MaxAnomRep    == 1    \* SpecReports: the start-up read may stay pending
MaxTimeRep    == 1    \* SpecReports: the clock stops here
MaxReports    == 26   \* SpecReports: generations, two past the cap
MaxTimeStats    == 3  \* SpecStats: the start-up and one sampling tick
MaxAnomStats    == 1  \* SpecStats: anomalous host reads
MaxReportsStats == 1  \* SpecStats: generations
MaxTimePersist    == 1  \* SpecPersist: the clock stops here
MaxAnomPersist    == 1  \* SpecPersist: the start-up read may stay pending
MaxReportsPersist == 2  \* SpecPersist: generations
MaxTimeApi     == 5   \* SpecApi: a system-info request may time out
MaxCallsApi    == 2   \* SpecApi: report generations and system-info requests
MaxSysAnomApi  == 1   \* SpecApi: identity reads that are slow or fail
MaxTimeSys     == 62  \* SpecSysInfo: past the 60 s of the identity cache
MaxSysReqs     == 3   \* SpecSysInfo: system-info requests
MaxSysAnom     == 1   \* SpecSysInfo: identity reads that are slow or fail
MaxTimeShut    == 10  \* SpecShutdown: three sampling ticks and a health check
MaxEventsShut  == 1   \* SpecShutdown: anomalous host reads and generations
MaxTimeAnswer    == 5  \* SpecAnswer: a request of second 0 may time out
MaxReqsAnswer    == 1  \* SpecAnswer: system-info requests
MaxSysAnomAnswer == 1  \* SpecAnswer: identity reads that are slow or fail
MaxTimeClient  == 5   \* SpecClient: the poll at mount and the first interval
MaxPolls       == 2   \* SpecClient: fetchData invocations
MaxTimeSnap    == 6   \* SpecSnap: two sampling ticks
MaxAnomSnap    == 1   \* SpecSnap: anomalous host reads
MaxReportsSnap == 2   \* SpecSnap: generations
MaxTimeLate    == 33  \* SpecLate: eleven sampling ticks before the start-up ends
MaxAnomLate    == 1   \* SpecLate: the start-up read may be slow
MaxReportsLate == 1   \* SpecLate: generations
MaxTimeOrphan    == 9  \* SpecOrphans: the disk read of the tick of second 3 times out at 8
MaxSlowOrphan    == 1  \* SpecOrphans: slow host reads, of the sampling or of the identity
MaxReqsOrphan    == 1  \* SpecOrphans: system-info requests
MaxTimeHealth  == 10  \* SpecHealth: the first periodic health check
MaxAnomHealth  == 4   \* SpecHealth: the start-up read and three ticks may fail
MaxTimeHung    == 11  \* SpecHung: the tick of second 3 may wait 3 s, then 5 s
MaxAnomHung    == 1   \* SpecHung: host reads that may be slow or fail

(***************************************************************************)
(* JavaScript values                                                       *)
(***************************************************************************)
Pct(p)     == p * 1000                      \* p percent
Num(v)     == [def |-> TRUE,  v |-> v]      \* a number
Undefined  == [def |-> FALSE, v |-> 0]      \* undefined (or NaN)

\* x || 0 : undefined, NaN and 0 all give 0
OrZero(x) == IF x.def THEN x.v ELSE 0

Min(a, b) == IF a < b THEN a ELSE b
Max(a, b) == IF a > b THEN a ELSE b

\* Math.round(x * 10) / 10   (Math.round rounds half up)
Round1(x) == ((x + 50) \div 100) * 100
\* Math.round(x * 100) / 100
Round2(x) == ((x + 5) \div 10) * 10

\* new Date(t).toLocaleTimeString(): the time of day, the date is dropped
toLocaleTimeString(t) == t % 86400

(***************************************************************************)
(* What the host (the systeminformation library) may answer                *)
(***************************************************************************)
Load(u, s)  == [null |-> FALSE, currentLoadUser |-> u, currentLoadSystem |-> s]
NullLoad    == [null |-> TRUE, currentLoadUser |-> Undefined, currentLoadSystem |-> Undefined]
Mem(u, t)   == [null |-> FALSE, used |-> u, total |-> t]
Drive(m, u) == [mount |-> m, use |-> u]

CpuNominal  == Load(Num(20000), Num(10000))            \* 30.0 %
CpuHigh     == Load(Num(60040), Num(25020))            \* 85.06 % -> 85.1
CpuAt80     == Load(Num(50000), Num(30000))            \* exactly 80.0 %
CpuNear100  == Load(Num(70000), Num(29000))            \* 99.0 %
CpuNearZero == Load(Num(1000), Num(0))                 \* 1.0 %
CpuOver     == Load(Num(90000), Num(30000))            \* 120 %: out of range
CpuNegative == Load(Num(0 - 5000), Num(0))             \* -5 %: out of range
CpuMissing  == Load(Undefined, Undefined)              \* fields absent

MemNominal  == Mem(Num(4000), Num(8000))               \* 50.0 %
MemHigh     == Mem(Num(7000), Num(8000))               \* 87.5 %
MemAt85     == Mem(Num(17000), Num(20000))             \* exactly 85.0 %
MemOver     == Mem(Num(9000), Num(8000))               \* 112.5 %: out of range
MemMissing  == Mem(Undefined, Undefined)               \* NaN

DiskNominal == <<Drive("/", Num(45270))>>              \* 45.27 % -> 45.3
DiskHigh    == <<Drive("/data", Num(10000)), Drive("/", Num(95500))>>
DiskAt90    == <<Drive("D:", Num(12000)), Drive("C:\\", Num(90000))>>
DiskOver    == <<Drive("D:", Num(150000))>>            \* 150 %: out of range
DiskNoUse   == <<Drive("C:", Undefined)>>              \* use absent
DiskNone    == <<>>                                    \* no volumes

\* the (currentLoad, mem) pairs a Promise.all may resolve with
CpuMemReads ==
    {<<c, MemNominal>> : c \in {CpuNominal, CpuHigh, CpuAt80, CpuNear100,
                                CpuNearZero, CpuOver, CpuNegative,
                                CpuMissing, NullLoad}}
    \cup {<<CpuNominal, m>> : m \in {MemHigh, MemAt85, MemOver, MemMissing}}
    \cup {<<CpuHigh, MemHigh>>}
DiskReads == {DiskNominal, DiskHigh, DiskAt90, DiskOver, DiskNoUse, DiskNone}

\* answers on both sides of each alert threshold, for the alert evaluation
CpuMemReadsEdge ==
    {<<c, m>> :
        c \in {CpuNominal, CpuAt80, CpuHigh,
               Load(Num(50000), Num(29900)),        \* 79.9 %
               Load(Num(50020), Num(30020)),        \* 80.04 % -> 80.0
               Load(Num(50000), Num(30100))},       \* 80.1 %
        m \in {MemNominal, MemAt85, MemHigh,
               Mem(Num(8510), Num(10000))}}         \* 85.1 %
DiskReadsEdge ==
    {DiskNominal, DiskAt90, DiskHigh,
     <<Drive("/", Num(90040))>>,                    \* 90.04 % -> 90.0
     <<Drive("/", Num(90100))>>}                    \* 90.1 %

\* answers on both sides of each breakpoint of the report summary
CpuMemReadsBand ==
    {<<c, MemNominal>> :
        c \in {CpuNominal, CpuAt80, CpuHigh,
               Load(Num(30000), Num(20000)),        \* exactly 50.0 %
               Load(Num(30000), Num(20100)),        \* 50.1 %
               Load(Num(50020), Num(30020)),        \* 80.04 %
               Load(Num(50000), Num(30100))}}       \* 80.1 %
    \cup {<<CpuNominal, m>> :
        m \in {MemAt85, MemHigh,
               Mem(Num(7000), Num(10000)),          \* exactly 70.0 %
               Mem(Num(7010), Num(10000)),          \* 70.1 %
               Mem(Num(8510), Num(10000))}}         \* 85.1 %
DiskReadsBand ==
    {DiskNominal, DiskAt90, DiskHigh,
     <<Drive("/", Num(80000))>>,                    \* exactly 80.0 %
     <<Drive("/", Num(80100))>>,                    \* 80.1 %
     <<Drive("/", Num(90100))>>}                    \* 90.1 %

\* the fewer answers explored over the longer runs
CpuMemReadsFew == {<<CpuNominal, MemNominal>>, <<CpuHigh, MemNominal>>,
                   <<NullLoad, MemNominal>>}
DiskReadsFew   == {DiskNominal, DiskOver, DiskNone}

\* si.cpu(), si.mem(), si.osInfo(); mem.total in quarters of a GiB
Identity(manufacturer, brand, total, platform, release) ==
    [null |-> FALSE,
     cpu |-> [manufacturer |-> manufacturer, brand |-> brand],
     mem |-> [total |-> total],
     os  |-> [platform |-> platform, release |-> release]]
IdentityNominal == Identity("Intel", "Core i7", 63, "linux", "6.1")   \* 15.75 GiB
IdentityOther   == Identity("AMD", "Ryzen 7", 129, "linux", "6.1")    \* 32.25 GiB
\* si.cpu() gave null: cpu.manufacturer throws
IdentityNull    == [null |-> TRUE, cpu |-> <<>>, mem |-> <<>>, os |-> <<>>]
IdentityReads   == {IdentityNominal, IdentityOther, IdentityNull}
IdentityReadsFew == {IdentityNominal, IdentityOther}

\* Math.random() streams used by initializeData, in thousandths: the value
\* drawn for sample i (0..9)
RandomStreams == {"mid", "low", "high", "mixed"}
RandomStreamsFew == {"mid", "mixed"}
Math_random(stream, i) ==
    CASE stream = "mid"   -> 500
      [] stream = "low"   -> 0
      [] stream = "high"  -> 999
      [] stream = "mixed" -> IF i % 2 = 0 THEN 0 ELSE 999

(***************************************************************************)
(* server.js: pure parts of collectMetrics, initializeData, checkAlerts    *)
(***************************************************************************)
\* drive.mount === 'C:' || drive.mount === '/' || drive.mount.includes('C:')
IsMainMount(m) == m = "C:" \/ m = "/" \/ m \in {"C:", "C:\\"}

\* diskData.find(...) || diskData[0]     (diskData is not empty)
MainDrive(diskData) ==
    LET hits == {i \in 1..Len(diskData) : IsMainMount(diskData[i].mount)}
    IN  IF hits = {} THEN diskData[1]
        ELSE diskData[CHOOSE i \in hits : \A j \in hits : i <= j]

\* (used / total) * 100, NaN when a field is absent or both are 0.  A
\* non-zero used over a zero total (Infinity) is not among the host answers.
MemRatio(memData) ==
    IF memData.used.def /\ memData.total.def /\ memData.total.v # 0
    THEN (memData.used.v * 100000) \div memData.total.v
    ELSE 0

\* server.js:113-118
CpuUsage(cpuData) ==
    Min(Pct(100), Max(0, OrZero(cpuData.currentLoadUser)
                         + OrZero(cpuData.currentLoadSystem)))
MemoryUsage(memData) == Min(Pct(100), Max(0, MemRatio(memData)))

\* server.js:92   cachedDiskData?.use || 0
CachedDiskUsage(cache) == IF cache.def THEN cache.use ELSE 0

\* server.js:93   !cachedDiskData || (now - lastDiskCheck) > 30000
DiskReadNeeded(cache, t, last) == ~cache.def \/ (t - last) > DiskStaleness

\* server.js:120-126; started is the tick's `now`, t the time of completion
Metric(cpuData, memData, diskUsage, started, t, n) ==
    [time      |-> toLocaleTimeString(t),
     cpu       |-> Round1(CpuUsage(cpuData)),
     memory    |-> Round1(MemoryUsage(memData)),
     disk      |-> Round1(diskUsage),
     timestamp |-> started,
     src       |-> "tick",      \* (history) appended by a sampling tick,
     n         |-> n]           \* (history) as its n-th append

PushOnly(h, m) == Append(h, m)
PushEvictTwo(h, m) ==
    LET pushed == Append(h, m)
    IN  IF Len(pushed) > HistoryCap THEN Tail(Tail(pushed)) ELSE pushed
\* server.js:129-132  push, then shift when longer than 20
PushEvict(h, m) ==
    LET pushed == Append(h, m)
    IN  IF Len(pushed) > HistoryCap THEN Tail(pushed) ELSE pushed

\* server.js:195  currentAlerts = []
KeptAlerts == currentAlerts
ClearedAlerts == <<>>

\* server.js:197, 207, 217  metric.x > threshold
ExceedsOrEquals(value, threshold) == value >= Pct(threshold)
Exceeds(value, threshold) == value > Pct(threshold)

\* server.js:194-226; the result is the new value of currentAlerts, t is the
\* time of the evaluation and description the value the text embeds
checkAlerts(metric, t) ==
    ClearedAlerts
    \o
    (IF Exceeds(metric.cpu, CpuThreshold)
     THEN <<[id |-> 1, name |-> "High CPU Usage", description |-> metric.cpu,
             severity |-> "critical", timestamp |-> t]>>
     ELSE <<>>)
    \o
    (IF Exceeds(metric.memory, MemoryThreshold)
     THEN <<[id |-> 2, name |-> "High Memory Usage", description |-> metric.memory,
             severity |-> "warning", timestamp |-> t]>>
     ELSE <<>>)
    \o
    (IF Exceeds(metric.disk, DiskThreshold)
     THEN <<[id |-> 3, name |-> "Low Disk Space", description |-> metric.disk,
             severity |-> "critical", timestamp |-> t]>>
     ELSE <<>>)

\* server.js:151-160
InitCpuUsage(cpuData) ==
    IF cpuData.currentLoadUser.def /\ cpuData.currentLoadSystem.def
    THEN cpuData.currentLoadUser.v + cpuData.currentLoadSystem.v
    ELSE 0
InitMemoryUsage(memData) == MemRatio(memData)
InitDiskUsage(diskData) ==
    IF Len(diskData) > 0 THEN OrZero(MainDrive(diskData).use) ELSE 0

\* server.js:163-172  the ten backdated samples, i = 0..9
InitMetrics(cpuData, memData, diskData, stream, t) ==
    [k \in 1..InitSamples |->
        LET i == k - 1
            r == Math_random(stream, i) - 500
        IN  [time      |-> toLocaleTimeString(t - (9 - i)),
             cpu       |-> Round2(InitCpuUsage(cpuData) + r * 5),
             memory    |-> Round2(InitMemoryUsage(memData) + r * 3),
             disk      |-> Round2(InitDiskUsage(diskData) + r * 2),
             timestamp |-> t - (9 - i),
             src       |-> "init",
             n         |-> k]]

\* server.js:180-189  the simulated samples of the catch branch
FallbackMetrics(stream, t) ==
    [k \in 1..InitSamples |->
        LET i == k - 1
            r == Math_random(stream, i)
        IN  [time      |-> toLocaleTimeString(t - (9 - i)),
             cpu       |-> r * 30 + Pct(10),
             memory    |-> r * 40 + Pct(20),
             disk      |-> r * 25 + Pct(15),
             timestamp |-> t - (9 - i),
             src       |-> "init",
             n         |-> k]]

checkServicesAlwaysHealthy(h) ==
    <<[name |-> "System", status |-> "healthy", details |-> 0],
      [name |-> "API Server", status |-> "healthy", details |-> 0],
      [name |-> "Metrics", status |-> "healthy", details |-> Len(h)]>>
checkServicesWhenSmall(h) ==
    <<[name |-> "System", status |-> "healthy", details |-> 0],
      [name |-> "API Server", status |-> "healthy", details |-> 0],
      [name |-> "Metrics",
       status |-> IF Len(h) > 0 /\ Len(h) <= InitSamples THEN "healthy"
                                                         ELSE "starting",
       details |-> Len(h)]>>
\* server.js:232-248  the new value of serviceStatus
checkServices(h) ==
    <<[name |-> "System", status |-> "healthy", details |-> 0],
      [name |-> "API Server", status |-> "healthy", details |-> 0],
      [name |-> "Metrics",
       status |-> IF Len(h) > 0 THEN "healthy" ELSE "starting",
       details |-> Len(h)]>>

(***************************************************************************)
(* State                                                                   *)
(***************************************************************************)
NoResp == [ep |-> "none", status |-> 0, body |-> <<>>]
Reply(ep, status, body) == [ep |-> ep, status |-> status, body |-> body]

AlertIds(alerts) == {alerts[i].id : i \in 1..Len(alerts)}

\* (history) the step just taken: its kind, whether it appended a sample,
\* the alert classes that were active before it, and where a finishing
\* sampling tick had its disk value from: "cached" (no read), "read",
\* "empty" (no volumes), "rejected" or "timeout"
EvDisk(kind, app, disk) ==
    [kind |-> kind, app |-> app, pre |-> AlertIds(currentAlerts), disk |-> disk]
Ev(kind, app) == EvDisk(kind, app, "none")

\* a collectMetrics invocation suspended at `await Promise.race(...)`:
\* phase "cpu" (server.js:86) or "disk" (server.js:95)
NewTick(t) ==
    [start |-> t, phase |-> "cpu", slow |-> FALSE,
     cpuData |-> CpuNominal, memData |-> MemNominal,
     diskUsage |-> 0, diskStart |-> 0]

DeadlineNever(t) == t.start + 86400
\* when the setTimeout racing the tick's pending read fires
Deadline(t) ==
    IF t.phase = "cpu" THEN t.start + CpuMemTimeout
                       ELSE t.diskStart + DiskTimeout

\* the reports directory: whether it exists, the report_<id>.json files
\* and latest_reports.json
NoSummary == [def |-> FALSE, v |-> <<>>]
Directory(exists) == [dir |-> exists, reports |-> {}, summary |-> NoSummary]

\* cachedSystemInfo; (history) asked: when the request that fetched the
\* value arrived, at: when its fetch completed
NoSystemInfo == [def |-> FALSE, v |-> <<>>, asked |-> 0, at |-> 0]

\* the process is running and its intervals are set (server.js:255, 261,
\* 276)
Started ==
    [alive |-> TRUE, metricsInterval |-> TRUE, servicesInterval |-> TRUE,
     reportInterval |-> TRUE]
\* handlers run while the process is alive; an interval fires while it is set
Running == proc.alive
ArmedWhenIdle(interval) == proc.alive /\ proc[interval] /\ ticks = {}
Armed(interval) == proc.alive /\ proc[interval]

\* the page before its effect has run: the initial values of the state
\* hooks (index.js:70-89) and of the effect's locals (104-106); polls are
\* the fetchData invocations suspended at an await; (history) closed: the
\* effect was cleaned up, nPolls: invocations so far, lastFailed: a call of
\* the poll that ended last had failed
NoInfo == [def |-> FALSE, v |-> <<>>]
NotMounted ==
    [metrics |-> <<>>, alerts |-> <<>>, services |-> <<>>,
     systemInfo |-> NoInfo, loading |-> TRUE,
     lastUpdate |-> [def |-> FALSE, t |-> 0], isLive |-> FALSE,
     isMounted |-> FALSE, retryCount |-> 0, systemInfoLastFetch |-> 0,
     nextPoll |-> 0, polls |-> {}, closed |-> FALSE, nPolls |-> 0,
     lastFailed |-> FALSE]

SysInfoDeadlineNever(r) == r.start + 86400
\* when the setTimeout racing a system-info request's reads fires
SysInfoDeadline(r) == r.start + SysInfoTimeout

\* dirs: whether the reports directory may exist when the process starts
InitWith(dirs) ==
    /\ now = 0
    /\ nextMetrics = MetricsPeriod
    /\ nextServices = ServicesPeriod
    /\ metricsHistory = <<>>
    /\ currentAlerts = <<>>
    /\ serviceStatus = <<>>
    /\ cachedDiskData = [def |-> FALSE, use |-> 0]
    /\ lastDiskCheck = 0
    /\ initPhase = "reading"       \* initializeData awaits Promise.all
    /\ ticks = {}
    /\ reportHistory = <<>>
    /\ resp = NoResp
    /\ ev = [kind |-> "start", app |-> FALSE, pre |-> {}, disk |-> "none"]
    /\ nAppended = 0
    /\ nGenerated = 0
    /\ anom = 0
    /\ saves = {}
    /\ saveFailed = FALSE
    /\ lateReads = {}
    /\ fs \in {Directory(d) : d \in dirs}
    /\ cachedSystemInfo = NoSystemInfo
    /\ lastSystemInfoCheck = 0
    /\ sysReqs = {}
    /\ nSysReqs = 0
    /\ sysAnom = 0
    /\ proc = Started
    /\ client = NotMounted

Init == InitWith({FALSE})

Cost(nominal) == IF nominal THEN 0 ELSE 1

(***************************************************************************)
(* Time.  Timers are punctual: the clock does not pass the due time of an  *)
(* interval or of a timeout before its callback has run.  A host read that *)
(* is still pending when a second passes is a slow read.                   *)
(***************************************************************************)
Advance(p) ==
    /\ Running
    /\ now < p.maxTime
    /\ proc.metricsInterval => nextMetrics > now
    /\ proc.servicesInterval => nextServices > now
    /\ \A t \in ticks : Deadline(t) > now
    /\ \A r \in sysReqs : SysInfoDeadline(r) > now
    /\ LET late == Cardinality({r \in sysReqs : ~r.slow})
       IN  /\ sysAnom + late <= p.maxSysAnom
           /\ sysAnom' = sysAnom + late
    /\ sysReqs' = {[r EXCEPT !.slow = TRUE] : r \in sysReqs}
    /\ LET late == Cardinality({t \in ticks : ~t.slow})
                   + (IF initPhase = "reading" THEN 1 ELSE 0)
       IN  /\ anom + late <= p.maxAnom
           /\ anom' = anom + late
    /\ now' = now + 1
    /\ ticks' = {[t EXCEPT !.slow = TRUE] : t \in ticks}
    /\ initPhase' = IF initPhase = "reading" THEN "slow" ELSE initPhase
    /\ resp' = NoResp
    /\ ev' = Ev("Advance", FALSE)
    /\ UNCHANGED <<nextMetrics, nextServices, metricsHistory, currentAlerts,
                   serviceStatus, cachedDiskData, lastDiskCheck,
                   reportHistory, nAppended, nGenerated, saveVars,
                   cachedSystemInfo, lastSystemInfoCheck, nSysReqs,
                   proc, client, lateReads>>

(***************************************************************************)
(* collectMetrics (server.js:81-139), driven by metricsInterval            *)
(***************************************************************************)
\* server.js:86-89, 95-98, 307-310: the timer has settled the Promise.race
\* while the host read is still pending; p.late: whether the read is
\* followed until it completes
Abandoned(p, timedOut, kind, start) ==
    IF p.late /\ timedOut THEN lateReads \cup {[kind |-> kind, start |-> start]}
                          ELSE lateReads

\* server.js:255-259 and 82-89: the interval fires, collectMetrics runs up
\* to its first await
CollectStart ==
    /\ Armed("metricsInterval")
    /\ now = nextMetrics
    /\ nextMetrics' = nextMetrics + MetricsPeriod
    /\ ticks' = ticks \cup {NewTick(now)}
    /\ resp' = NoResp
    /\ ev' = Ev("CollectStart", FALSE)
    /\ UNCHANGED <<now, nextServices, metricsHistory, currentAlerts,
                   serviceStatus, cachedDiskData, lastDiskCheck, initPhase,
                   reportHistory, nAppended, nGenerated, anom,
                       saveVars, sysVars, proc, client, lateReads>>

OnCollectErrorStops(p) == [p EXCEPT !.metricsInterval = FALSE]
\* server.js:136-138 and 256-258  catch: the failure is logged; p is the
\* process
OnCollectError(p) == p
AlertsOnCollectErrorCleared(alerts) == <<>>
\* server.js:136-138  the catch block does not touch currentAlerts
AlertsOnCollectError(alerts) == alerts

\* server.js:112-138: the last segment of a tick.  A null cpuData throws a
\* TypeError at line 114, which the catch at line 136 logs.
Finish(t, cpuData, memData, diskUsage, disk) ==
    IF cpuData.null \/ memData.null
    THEN /\ ev' = EvDisk("CollectFailed", FALSE, disk)
         /\ proc' = OnCollectError(proc)
         /\ currentAlerts' = AlertsOnCollectError(currentAlerts)
         /\ UNCHANGED <<metricsHistory, nAppended>>
    ELSE LET metric == Metric(cpuData, memData, diskUsage, t.start, now,
                              nAppended + 1)
         IN  /\ metricsHistory' = PushEvict(metricsHistory, metric)
             /\ currentAlerts' = checkAlerts(metric, now)
             /\ nAppended' = nAppended + 1
             /\ ev' = EvDisk("CollectDone", TRUE, disk)
             /\ proc' = proc

\* server.js:86-110: Promise.all([currentLoad, mem]) resolves first
CpuMemResolve(p) ==
    \E t \in ticks, rd \in p.cpuMem :
        /\ Running
        /\ t.phase = "cpu"
        /\ anom + Cost(rd = <<CpuNominal, MemNominal>>) <= p.maxAnom
        /\ anom' = anom + Cost(rd = <<CpuNominal, MemNominal>>)
        /\ resp' = NoResp
        /\ IF DiskReadNeeded(cachedDiskData, t.start, lastDiskCheck)
           THEN /\ ticks' = (ticks \ {t}) \cup
                       {[t EXCEPT !.phase = "disk", !.slow = FALSE,
                                  !.cpuData = rd[1], !.memData = rd[2],
                                  !.diskUsage = CachedDiskUsage(cachedDiskData),
                                  !.diskStart = now]}
                /\ ev' = Ev("CollectDiskRead", FALSE)
                /\ UNCHANGED <<metricsHistory, currentAlerts, nAppended, proc>>
           ELSE /\ ticks' = ticks \ {t}
                /\ Finish(t, rd[1], rd[2], CachedDiskUsage(cachedDiskData),
                          "cached")
        /\ UNCHANGED <<now, nextMetrics, nextServices, serviceStatus,
                       cachedDiskData, lastDiskCheck, initPhase,
                       reportHistory, nGenerated,
                       saveVars, sysVars, client, lateReads>>

\* server.js:86-89, 136-138: a read rejects, or the 3 s timer rejects first
CpuMemFail(p) ==
    \E t \in ticks, timedOut \in BOOLEAN :
        /\ Running
        /\ t.phase = "cpu"
        /\ IF timedOut THEN now >= Deadline(t) ELSE anom < p.maxAnom
        /\ anom' = IF timedOut THEN anom ELSE anom + 1
        /\ ticks' = ticks \ {t}
        /\ resp' = NoResp
        /\ ev' = Ev(IF timedOut THEN "CollectTimeout" ELSE "CollectFailed", FALSE)
        /\ proc' = OnCollectError(proc)
        /\ currentAlerts' = AlertsOnCollectError(currentAlerts)
        /\ lateReads' = Abandoned(p, timedOut, "cpu", t.start)
        /\ UNCHANGED <<now, nextMetrics, nextServices, metricsHistory,
                       serviceStatus, cachedDiskData,
                       lastDiskCheck, initPhase, reportHistory, nAppended,
                       nGenerated,
                       saveVars, sysVars, client>>

\* server.js:95-106: fsSize() resolves first
DiskResolve(p) ==
    \E t \in ticks, diskData \in p.disk :
        /\ Running
        /\ t.phase = "disk"
        /\ anom + Cost(diskData = DiskNominal) <= p.maxAnom
        /\ anom' = anom + Cost(diskData = DiskNominal)
        /\ ticks' = ticks \ {t}
        /\ resp' = NoResp
        /\ IF Len(diskData) > 0
           THEN LET use == OrZero(MainDrive(diskData).use)
                IN  /\ cachedDiskData' = [def |-> TRUE, use |-> use]
                    /\ lastDiskCheck' = t.start
                    /\ Finish(t, t.cpuData, t.memData, use, "read")
           ELSE /\ UNCHANGED <<cachedDiskData, lastDiskCheck>>
                /\ Finish(t, t.cpuData, t.memData, t.diskUsage, "empty")
        /\ UNCHANGED <<now, nextMetrics, nextServices, serviceStatus,
                       initPhase, reportHistory, nGenerated,
                       saveVars, sysVars, client, lateReads>>

\* server.js:95-98, 107-109: fsSize() rejects, or the 5 s timer rejects first
DiskFail(p) ==
    \E t \in ticks, timedOut \in BOOLEAN :
        /\ Running
        /\ t.phase = "disk"
        /\ IF timedOut THEN now >= Deadline(t) ELSE anom < p.maxAnom
        /\ anom' = IF timedOut THEN anom ELSE anom + 1
        /\ ticks' = ticks \ {t}
        /\ resp' = NoResp
        /\ Finish(t, t.cpuData, t.memData, t.diskUsage,
                  IF timedOut THEN "timeout" ELSE "rejected")
        /\ lateReads' = Abandoned(p, timedOut, "disk", t.start)
        /\ UNCHANGED <<now, nextMetrics, nextServices, serviceStatus,
                       cachedDiskData, lastDiskCheck, initPhase,
                       reportHistory, nGenerated,
                       saveVars, sysVars, client>>

(***************************************************************************)
(* Start-up (server.js:141-191, 281-286) and health checks (228-265)       *)
(***************************************************************************)
\* what Promise.all([currentLoad, mem, fsSize]) may resolve with
InitReads(p) ==
    {<<rd[1], rd[2], DiskNominal>> : rd \in p.cpuMem}
    \cup {<<CpuNominal, MemNominal, dd>> : dd \in p.disk}

\* server.js:145-174, 283-285: the reads resolve; the ten samples are pushed
\* and checkServices runs before anything else can.  A null cpuData throws
\* at line 151 and the catch branch pushes the simulated samples instead.
InitResolve(p) ==
    \E rd \in InitReads(p), stream \in p.streams :
        /\ Running
        /\ initPhase # "done"
        /\ anom + Cost(rd = <<CpuNominal, MemNominal, DiskNominal>>) <= p.maxAnom
        /\ anom' = anom + Cost(rd = <<CpuNominal, MemNominal, DiskNominal>>)
        /\ metricsHistory' = metricsHistory \o
               (IF rd[1].null \/ rd[2].null
                THEN FallbackMetrics(stream, now)
                ELSE InitMetrics(rd[1], rd[2], rd[3], stream, now))
        /\ serviceStatus' = checkServices(metricsHistory')
        /\ initPhase' = "done"
        /\ resp' = NoResp
        /\ ev' = Ev("InitDone", FALSE)
        /\ UNCHANGED <<now, nextMetrics, nextServices, currentAlerts,
                       cachedDiskData, lastDiskCheck, ticks, reportHistory,
                       nAppended, nGenerated,
                       saveVars, sysVars, proc, client, lateReads>>

\* server.js:176-190, 283-285: a read rejects; the simulated samples
InitReject(p) ==
    \E stream \in p.streams :
        /\ Running
        /\ initPhase # "done"
        /\ anom < p.maxAnom
        /\ anom' = anom + 1
        /\ metricsHistory' = metricsHistory \o FallbackMetrics(stream, now)
        /\ serviceStatus' = checkServices(metricsHistory')
        /\ initPhase' = "done"
        /\ resp' = NoResp
        /\ ev' = Ev("InitFallback", FALSE)
        /\ UNCHANGED <<now, nextMetrics, nextServices, currentAlerts,
                       cachedDiskData, lastDiskCheck, ticks, reportHistory,
                       nAppended, nGenerated,
                       saveVars, sysVars, proc, client, lateReads>>

\* server.js:261-265: servicesInterval fires
ServicesTick ==
    /\ Armed("servicesInterval")
    /\ now = nextServices
    /\ nextServices' = nextServices + ServicesPeriod
    /\ serviceStatus' = checkServices(metricsHistory)
    /\ resp' = NoResp
    /\ ev' = Ev("ServicesTick", FALSE)
    /\ UNCHANGED <<now, nextMetrics, metricsHistory, currentAlerts,
                   cachedDiskData, lastDiskCheck, initPhase, ticks,
                   reportHistory, nAppended, nGenerated, anom,
                       saveVars, sysVars, proc, client, lateReads>>

(***************************************************************************)
(* Shutdown (server.js:267-273)                                            *)
(***************************************************************************)
StayAlive(p) == p
\* server.js:272  process.exit(0): no callback runs any more
Exit(p) == [p EXCEPT !.alive = FALSE]

\* server.js:268-273: SIGINT is handled: the two intervals the handler has
\* a reference to are cleared, then the process exits
Sigint ==
    /\ Running
    /\ proc' = Exit([proc EXCEPT !.metricsInterval = FALSE,
                                 !.servicesInterval = FALSE])
    /\ resp' = NoResp
    /\ ev' = Ev("Sigint", FALSE)
    /\ UNCHANGED <<now, nextMetrics, nextServices, metricsHistory,
                   currentAlerts, serviceStatus, cachedDiskData,
                   lastDiskCheck, initPhase, ticks, reportHistory,
                   nAppended, nGenerated, anom, saveVars, sysVars, client, lateReads>>

(***************************************************************************)
(* reportGenerator.js (src/test-api.bat:126-286)                           *)
(***************************************************************************)
RECURSIVE SeqSum(_)
SeqSum(q) == IF q = <<>> THEN 0 ELSE Head(q) + SeqSum(Tail(q))
SeqMax(q) == CHOOSE x \in {q[i] : i \in 1..Len(q)} : \A j \in 1..Len(q) : q[j] <= x
SeqMin(q) == CHOOSE x \in {q[i] : i \in 1..Len(q)} : \A j \in 1..Len(q) : x <= q[j]

TruncatedMean(q) == (SeqSum(q) \div (100 * Len(q))) * 100
\* Math.round((sum / length) * 10) / 10
RoundedMean(q) == ((SeqSum(q) + 50 * Len(q)) \div (100 * Len(q))) * 100

\* test-api.bat:183-188: one metric's block (values is not empty)
StatsOf(values) ==
    [avg     |-> Num(RoundedMean(values)),
     max     |-> Num(Round1(SeqMax(values))),
     min     |-> Num(Round1(SeqMin(values))),
     current |-> Num(values[Len(values)])]
\* {} : every field reads as undefined
EmptyStats == [avg |-> Undefined, max |-> Undefined, min |-> Undefined,
               current |-> Undefined]

\* test-api.bat:173-203
calculateStats(metrics) ==
    IF Len(metrics) = 0
    THEN [cpu |-> EmptyStats, memory |-> EmptyStats, disk |-> EmptyStats,
          dataPoints |-> 0]
    ELSE [cpu    |-> StatsOf([i \in 1..Len(metrics) |-> metrics[i].cpu]),
          memory |-> StatsOf([i \in 1..Len(metrics) |-> metrics[i].memory]),
          disk   |-> StatsOf([i \in 1..Len(metrics) |-> metrics[i].disk]),
          dataPoints |-> Len(metrics)]

\* x > c in JavaScript: false when x is undefined
JsGreaterOrEqual(x, c) == x.def /\ x.v >= c
JsGreater(x, c) == x.def /\ x.v > c

Band(avg, high, moderate) ==
    IF JsGreater(avg, Pct(high)) THEN "HIGH"
    ELSE IF JsGreater(avg, Pct(moderate)) THEN "MODERATE"
    ELSE "NORMAL"

\* test-api.bat:206-244: the lines, each as (subject, band, value shown)
generateSummary(stats, alerts) ==
    <<[about |-> "CPU",    band |-> Band(stats.cpu.avg, 80, 50),    shown |-> stats.cpu.avg],
      [about |-> "MEMORY", band |-> Band(stats.memory.avg, 85, 70), shown |-> stats.memory.avg],
      [about |-> "DISK",   band |-> Band(stats.disk.avg, 90, 80),   shown |-> stats.disk.avg],
      [about |-> "ALERTS",
       band  |-> IF Len(alerts) > 0 THEN "ACTIVE" ELSE "NONE",
       shown |-> Num(Len(alerts))]>>

\* which array object currentAlerts is bound to after k alert evaluations:
\* the one made by the k-th, 0 being the [] of the module's load
SameArray(k) == 0
\* server.js:68, 195  currentAlerts = [] binds a new array at every evaluation
ArrayAfter(k) == k
CurrentArray == ArrayAfter(nAppended)

\* test-api.bat:139-155: the report object; alertDetails holds the array
\* object itself
NewReport(metrics, alerts, t, n) ==
    [id           |-> t,                 \* Date.now()
     timestamp    |-> t,
     reportTime   |-> t,
     duration     |-> "10 minutes",
     metrics      |-> calculateStats(metrics),
     alerts       |-> Len(alerts),
     alertDetails |-> alerts,
     array        |-> CurrentArray,      \* (history) the object it holds
     summary      |-> generateSummary(calculateStats(metrics), alerts),
     n            |-> n]                 \* (history) the n-th report generated

PushDropNewest(h, r) ==
    IF Len(h) >= ReportCap THEN h ELSE Append(h, r)
\* test-api.bat:157-163  push, then shift when longer than 24
PushEvictReport(h, r) ==
    LET pushed == Append(h, r)
    IN  IF Len(pushed) > ReportCap THEN Tail(pushed) ELSE pushed

\* test-api.bat:150  what report.alertDetails reads as: the content of the
\* array object it holds, which is currentAlerts while it is still bound
AlertDetailsOf(r) ==
    IF r.array = CurrentArray THEN currentAlerts ELSE r.alertDetails

\* test-api.bat:247-253: saveReportToFile(report) runs up to its first
\* await, fs.access(reportsDir), and returns a promise nobody awaits
StartSave(report) == [report |-> report, phase |-> "access", content |-> <<>>]

\* test-api.bat:138-170; the report is returned to the caller
generateReport(maxReports) ==
    LET report == NewReport(metricsHistory, currentAlerts, now, nGenerated + 1)
    IN  /\ nGenerated < maxReports
        /\ nGenerated' = nGenerated + 1
        /\ reportHistory' = PushEvictReport(reportHistory, report)
        /\ saves' = saves \cup {StartSave(report)}
        /\ fs' = fs
        /\ saveFailed' = saveFailed

\* server.js:344-347  POST /api/reports/generate
PostGenerate(maxReports) ==
    /\ Running
    /\ generateReport(maxReports)
    /\ resp' = Reply("generate", 200,
                     NewReport(metricsHistory, currentAlerts, now, nGenerated + 1))
    /\ ev' = Ev("PostGenerate", FALSE)
    /\ UNCHANGED <<now, nextMetrics, nextServices, metricsHistory,
                   currentAlerts, serviceStatus, cachedDiskData,
                   lastDiskCheck, initPhase, ticks, nAppended, anom,
                   sysVars, proc, client, lateReads>>

\* server.js:275-279  the 10-minute interval fires.  The instants at which
\* it is due are not tracked: the tick is taken as possible at any moment.
ReportTick(maxReports) ==
    /\ Armed("reportInterval")
    /\ generateReport(maxReports)
    /\ resp' = NoResp
    /\ ev' = Ev("ReportTick", FALSE)
    /\ UNCHANGED <<now, nextMetrics, nextServices, metricsHistory,
                   currentAlerts, serviceStatus, cachedDiskData,
                   lastDiskCheck, initPhase, ticks, nAppended, anom,
                   sysVars, proc, client, lateReads>>

(***************************************************************************)
(* saveReportToFile (test-api.bat:246-270): every await of the function    *)
(* lies inside its try block                                               *)
(***************************************************************************)
OnSaveErrorRollback(h, report) == SelectSeq(h, LAMBDA x : x.n # report.n)
\* test-api.bat:267-269  catch (error): the failure is logged; h is
\* reportHistory
OnSaveError(h, report) == h

\* what a step of a save leaves alone
SaveFrame(kind) ==
    /\ Running
    /\ resp' = NoResp
    /\ ev' = Ev(kind, FALSE)
    /\ UNCHANGED <<now, nextMetrics, nextServices, metricsHistory,
                   currentAlerts, serviceStatus, cachedDiskData,
                   lastDiskCheck, initPhase, ticks, nAppended, nGenerated,
                   anom, sysVars, proc, client, lateReads>>

\* the save moves on to its next await
SaveContinues(s, phase, content) ==
    /\ saves' = (saves \ {s}) \cup {[s EXCEPT !.phase = phase, !.content = content]}
    /\ reportHistory' = reportHistory
    /\ saveFailed' = saveFailed
    /\ SaveFrame("SaveStep")
\* the save is over: after its last write, or in the catch block
SaveEnds(s, failed) ==
    /\ saves' = saves \ {s}
    /\ saveFailed' = (saveFailed \/ failed)
    /\ reportHistory' = IF failed THEN OnSaveError(reportHistory, s.report)
                                  ELSE reportHistory
    /\ SaveFrame(IF failed THEN "SaveFailed" ELSE "SaveDone")

\* test-api.bat:252-256: fs.access settles; when it rejects the inner catch
\* calls fs.mkdir
SaveAccess ==
    \E s \in saves, ok \in BOOLEAN :
        /\ s.phase = "access"
        /\ ok => fs.dir
        /\ fs' = fs
        /\ SaveContinues(s, IF ok THEN "writeReport" ELSE "mkdir", <<>>)

\* test-api.bat:255, 258-261: fs.mkdir settles; the report file is written next
SaveMkdir ==
    \E s \in saves, ok \in BOOLEAN :
        /\ s.phase = "mkdir"
        /\ IF ok THEN /\ fs' = [fs EXCEPT !.dir = TRUE]
                       /\ SaveContinues(s, "writeReport", <<>>)
                 ELSE /\ fs' = fs
                      /\ SaveEnds(s, TRUE)

\* test-api.bat:259-265: report_<id>.json is written; the history as it is
\* now is serialized for latest_reports.json
SaveWriteReport ==
    \E s \in saves, ok \in BOOLEAN :
        /\ s.phase = "writeReport"
        /\ ok => fs.dir
        /\ IF ok THEN /\ fs' = [fs EXCEPT !.reports =
                               {f \in @ : f.name # s.report.id}
                               \cup {[name |-> s.report.id, report |-> s.report]}]
                       /\ SaveContinues(s, "writeSummary", reportHistory)
                 ELSE /\ fs' = fs
                      /\ SaveEnds(s, TRUE)

\* test-api.bat:264-265: latest_reports.json is written
SaveWriteSummary ==
    \E s \in saves, ok \in BOOLEAN :
        /\ s.phase = "writeSummary"
        /\ ok => fs.dir
        /\ fs' = IF ok THEN [fs EXCEPT !.summary = [def |-> TRUE, v |-> s.content]]
                       ELSE fs
        /\ SaveEnds(s, ~ok)

\* test-api.bat:273-280; null is the empty tuple
getReports == reportHistory
getOldestReport ==
    IF Len(reportHistory) > 0 THEN reportHistory[1] ELSE <<>>
getLatestReport ==
    IF Len(reportHistory) > 0 THEN reportHistory[Len(reportHistory)] ELSE <<>>

(***************************************************************************)
(* API reads (server.js:289-342)                                           *)
(***************************************************************************)
Read(ep, status, body) ==
    /\ Running
    /\ resp' = Reply(ep, status, body)
    /\ ev' = Ev(ep, FALSE)
    /\ UNCHANGED <<now, nextMetrics, nextServices, metricsHistory,
                   currentAlerts, serviceStatus, cachedDiskData,
                   lastDiskCheck, initPhase, ticks, reportHistory,
                   nAppended, nGenerated, anom,
                       saveVars, sysVars, proc, client, lateReads>>

GetMetrics  == Read("metrics", 200, metricsHistory)
GetAlerts   == Read("alerts", 200, currentAlerts)
GetServices == Read("services", 200, serviceStatus)
GetReports  == Read("reports", 200, getReports)
\* server.js:326-328
GetHealth   == Read("health", 200, [status |-> "OK", timestamp |-> now])

LatestStatusAlwaysOk(latest) == 200
LatestStatusServerError(latest) == IF latest # <<>> THEN 200 ELSE 500
\* server.js:337-341  if (latest) res.json(latest) else res.status(404)
LatestStatus(latest) == IF latest # <<>> THEN 200 ELSE 404
\* server.js:335-342
GetLatest   == Read("latest", LatestStatus(getLatestReport), getLatestReport)

(***************************************************************************)
(* GET /api/system-info (server.js:301-324)                                *)
(***************************************************************************)
SysInfoReadNeededAt60(cache, t, last) ==
    ~cache.def \/ (t - last) >= SysInfoStaleness
\* server.js:306  !cachedSystemInfo || (now - lastSystemInfoCheck) > 60000
SysInfoReadNeeded(cache, t, last) ==
    ~cache.def \/ (t - last) > SysInfoStaleness

\* server.js:312-316
SystemInfo(ident) ==
    [cpu    |-> <<ident.cpu.manufacturer, " ", ident.cpu.brand>>,
     memory |-> <<(ident.mem.total + 2) \div 4, " GB">>,
     os     |-> <<ident.os.platform, " ", ident.os.release>>]

SysInfoFrame ==
    /\ Running
    /\ UNCHANGED <<now, nextMetrics, nextServices, metricsHistory,
                   currentAlerts, serviceStatus, cachedDiskData, lastDiskCheck,
                   initPhase, ticks, reportHistory, nAppended, nGenerated, anom,
                   saveVars, proc, client>>

\* server.js:301-310, 320: the request arrives; the cached value is sent,
\* or the reads are started and the handler is suspended at the await
SysInfoRequest(p) ==
    /\ nSysReqs < p.maxSysReqs
    /\ nSysReqs' = nSysReqs + 1
    /\ IF SysInfoReadNeeded(cachedSystemInfo, now, lastSystemInfoCheck)
       THEN /\ sysReqs' = sysReqs \cup
                   {[n |-> nSysReqs + 1, start |-> now, slow |-> FALSE]}
            /\ resp' = NoResp
            /\ ev' = Ev("SysInfoRead", FALSE)
       ELSE /\ sysReqs' = sysReqs
            /\ resp' = Reply("system-info", 200, cachedSystemInfo.v)
            /\ ev' = Ev("SysInfoCached", FALSE)
    /\ UNCHANGED <<cachedSystemInfo, lastSystemInfoCheck, sysAnom, lateReads>>
    /\ SysInfoFrame

\* server.js:307-320: the reads resolve first.  A null component throws at
\* line 313 and the catch at line 321 answers 500.
SysInfoResolve(p) ==
    \E r \in sysReqs, ident \in p.sysReads :
        /\ sysAnom + Cost(~ident.null) <= p.maxSysAnom
        /\ sysAnom' = sysAnom + Cost(~ident.null)
        /\ sysReqs' = sysReqs \ {r}
        /\ IF ident.null
           THEN /\ resp' = Reply("system-info", 500, <<>>)
                /\ ev' = Ev("SysInfoFailed", FALSE)
                /\ UNCHANGED <<cachedSystemInfo, lastSystemInfoCheck>>
           ELSE /\ cachedSystemInfo' = [def |-> TRUE, v |-> SystemInfo(ident),
                                        asked |-> r.start, at |-> now]
                /\ lastSystemInfoCheck' = r.start
                /\ resp' = Reply("system-info", 200, SystemInfo(ident))
                /\ ev' = Ev("SysInfoFetched", FALSE)
        /\ nSysReqs' = nSysReqs
        /\ lateReads' = lateReads
        /\ SysInfoFrame

\* server.js:307-310, 321-323: a read rejects, or the 5 s timer rejects first
SysInfoFail(p) ==
    \E r \in sysReqs, timedOut \in BOOLEAN :
        /\ IF timedOut THEN now >= SysInfoDeadline(r)
                       ELSE sysAnom < p.maxSysAnom
        /\ sysAnom' = IF timedOut THEN sysAnom ELSE sysAnom + 1
        /\ sysReqs' = sysReqs \ {r}
        /\ resp' = Reply("system-info", 500, <<>>)
        /\ ev' = Ev(IF timedOut THEN "SysInfoTimeout" ELSE "SysInfoFailed", FALSE)
        /\ UNCHANGED <<cachedSystemInfo, lastSystemInfoCheck, nSysReqs>>
        /\ lateReads' = Abandoned(p, timedOut, "info", r.start)
        /\ SysInfoFrame

RaceOpen(r) == FALSE
\* server.js:86-89, 95-98, 307-310  Promise.race takes the first settlement:
\* the one of a read that completes after its timer is dropped
RaceSettled(r) == TRUE

\* a host read completes after its timer has fired.  Were the race still
\* open, the code after the await would run with the read's result.
LateResult(p) ==
    \E r \in lateReads :
        /\ Running
        /\ p.late
        /\ lateReads' = lateReads \ {r}
        /\ resp' = NoResp
        /\ ev' = Ev(CASE r.kind = "cpu"  -> "LateCpuMem"
                      [] r.kind = "disk" -> "LateDisk"
                      [] r.kind = "info" -> "LateInfo", FALSE)
        /\ IF RaceSettled(r)
           THEN UNCHANGED <<metricsHistory, currentAlerts, nAppended,
                            cachedDiskData, lastDiskCheck, cachedSystemInfo,
                            lastSystemInfoCheck>>
           ELSE CASE r.kind = "cpu" ->
                       LET metric == Metric(CpuNominal, MemNominal,
                                            CachedDiskUsage(cachedDiskData),
                                            r.start, now, nAppended + 1)
                       IN  /\ metricsHistory' = PushEvict(metricsHistory, metric)
                           /\ currentAlerts' = checkAlerts(metric, now)
                           /\ nAppended' = nAppended + 1
                           /\ UNCHANGED <<cachedDiskData, lastDiskCheck,
                                          cachedSystemInfo, lastSystemInfoCheck>>
                  [] r.kind = "disk" ->
                       /\ cachedDiskData' =
                              [def |-> TRUE, use |-> OrZero(MainDrive(DiskNominal).use)]
                       /\ lastDiskCheck' = r.start
                       /\ UNCHANGED <<metricsHistory, currentAlerts, nAppended,
                                      cachedSystemInfo, lastSystemInfoCheck>>
                  [] r.kind = "info" ->
                       /\ cachedSystemInfo' =
                              [def |-> TRUE, v |-> SystemInfo(IdentityNominal),
                               asked |-> r.start, at |-> now]
                       /\ lastSystemInfoCheck' = r.start
                       /\ UNCHANGED <<metricsHistory, currentAlerts, nAppended,
                                      cachedDiskData, lastDiskCheck>>
        /\ UNCHANGED <<now, nextMetrics, nextServices, serviceStatus,
                       initPhase, ticks, reportHistory, nGenerated, anom,
                       saveVars, sysReqs, nSysReqs, sysAnom, proc, client>>

SysInfo(p) ==
    \/ SysInfoRequest(p)
    \/ SysInfoResolve(p)
    \/ SysInfoFail(p)

(***************************************************************************)
(* The dashboard page (frontend/src/index.js:102-187).  A call to the      *)
(* backend either fails (no answer within the axios timeout, or none at    *)
(* all) or returns what the route sends at that moment.                    *)
(***************************************************************************)
\* index.js:133  the effect runs once (its dependency list is empty), so
\* the systemInfo its closure reads is the one of the first render
ClosureSystemInfo == NoInfo

\* index.js:132  Date.now() on the page, in seconds, at second t of the
\* model: the epoch, the 0 of systemInfoLastFetch, lies further back than
\* InfoPeriod
PageClock(t) == t + InfoPeriod + 1

\* index.js:133  !systemInfo.cpu || (now - systemInfoLastFetch) > 60000
InfoNeeded(info, t, last) == ~info.def \/ (t - last) > InfoPeriod

\* index.js:143  the placeholder set when the identity is unavailable
PlaceholderInfo ==
    [def |-> TRUE,
     v |-> [cpu |-> <<"System CPU">>, memory |-> <<"Unknown">>,
            os |-> <<"Unknown">>]]

\* index.js:172-178  whether the interval callback calls fetchData;
\* Date.now() is t seconds
ShouldFetch(retryCount, t) ==
    IF retryCount < RetryLimit THEN TRUE
    ELSE (t * 1000) % Min(30000, 1000 * 2 ^ (retryCount - RetryLimit)) < 5000

\* index.js:109-122  fetchData runs up to await Promise.all
StartPoll(c) ==
    [c EXCEPT !.nPolls = @ + 1,
              !.polls = @ \cup {[n |-> c.nPolls + 1, phase |-> "core",
                                 at |-> 0, failed |-> FALSE]}]

\* index.js:149-154  the update is recorded as successful; failed: whether
\* a call of this poll had failed
RecordUpdate(c, failed) ==
    [c EXCEPT !.lastUpdate = [def |-> TRUE, t |-> now], !.isLive = TRUE,
              !.loading = FALSE, !.retryCount = 0, !.lastFailed = failed]

ClientFrame(kind) ==
    /\ resp' = NoResp
    /\ ev' = Ev(kind, FALSE)
    /\ UNCHANGED <<now, nextMetrics, nextServices, metricsHistory,
                   currentAlerts, serviceStatus, cachedDiskData,
                   lastDiskCheck, initPhase, ticks, reportHistory,
                   nAppended, nGenerated, anom, saveVars, sysVars, proc, lateReads>>

\* index.js:103-106, 168-179: the effect runs: fetchData is called and the
\* interval is set
ClientMount ==
    /\ ~client.isMounted
    /\ ~client.closed
    /\ client' = StartPoll([client EXCEPT !.isMounted = TRUE,
                                          !.nextPoll = now + PollPeriod])
    /\ ClientFrame("Mount")

\* index.js:171-179: the interval fires (at its due time or later)
ClientInterval(maxPolls) ==
    /\ client.isMounted
    /\ now >= client.nextPoll
    /\ client.nPolls < maxPolls
    /\ LET c == [client EXCEPT !.nextPoll = @ + PollPeriod]
       IN  client' = IF ShouldFetch(client.retryCount, PageClock(now))
                     THEN StartPoll(c)
                     ELSE c
    /\ ClientFrame("PollStart")

\* index.js:116-146: the three calls have settled, each one's failure
\* replaced by {data: []} in its own catch; the state is updated and the
\* identity is requested, or the update is recorded
ClientCoreSettle ==
    \E p \in client.polls, okM, okA, okS \in BOOLEAN :
        /\ p.phase = "core"
        /\ (okM \/ okA \/ okS) => Running
        /\ LET rest == client.polls \ {p}
               failed == ~(okM /\ okA /\ okS)
               c == [client EXCEPT
                        !.metrics  = IF okM THEN metricsHistory ELSE <<>>,
                        !.alerts   = IF okA THEN currentAlerts ELSE <<>>,
                        !.services = IF okS THEN serviceStatus ELSE <<>>]
           IN  IF ~client.isMounted
               THEN /\ client' = [client EXCEPT !.polls = rest]
                    /\ ClientFrame("PollDropped")
               ELSE IF InfoNeeded(ClosureSystemInfo, PageClock(now),
                                  client.systemInfoLastFetch)
               THEN /\ client' = [c EXCEPT !.polls = rest \cup
                                      {[p EXCEPT !.phase = "info", !.at = PageClock(now),
                                                 !.failed = failed]}]
                    /\ ClientFrame("PollCalls")
               ELSE /\ client' = RecordUpdate([c EXCEPT !.polls = rest], failed)
                    /\ ClientFrame("PollDone")

\* index.js:134-154: the identity call has settled; its failure is caught
\* by the inner catch; the update is recorded
ClientInfoSettle ==
    \E p \in client.polls, ok \in BOOLEAN, ident \in IdentityReadsFew :
        /\ p.phase = "info"
        /\ ok => Running
        /\ LET c == [client EXCEPT !.polls = @ \ {p}]
           IN  IF ~client.isMounted
               THEN /\ client' = c
                    /\ ClientFrame("PollDropped")
               ELSE /\ client' = RecordUpdate(
                          IF ok
                          THEN [c EXCEPT !.systemInfo =
                                           [def |-> TRUE, v |-> SystemInfo(ident)],
                                         !.systemInfoLastFetch = p.at]
                          ELSE IF ~ClosureSystemInfo.def
                               THEN [c EXCEPT !.systemInfo = PlaceholderInfo]
                               ELSE c,
                          p.failed \/ ~ok)
                    /\ ClientFrame("PollDone")

\* index.js:182-185: the cleanup of the effect
ClientUnmount ==
    /\ client.isMounted
    /\ client' = [client EXCEPT !.isMounted = FALSE, !.closed = TRUE]
    /\ ClientFrame("Unmount")

(***************************************************************************)
(* Specifications                                                          *)
(***************************************************************************)
\* what a specification explores: how long, how many anomalous host reads,
\* and which answers the host may give
Profile(maxTime, maxAnom, cpuMem, disk, streams) ==
    [maxTime |-> maxTime, maxAnom |-> maxAnom, cpuMem |-> cpuMem,
     disk |-> disk, streams |-> streams,
     maxSysReqs |-> 0, maxSysAnom |-> 0, sysReads |-> {}, late |-> FALSE]

\* the same, following the host reads that lost their race against the
\* timer until they complete
WithLateReads(p) == [p EXCEPT !.late = TRUE]

\* the same with system-info requests: how many, how many slow or failed
\* identity reads, and which answers
WithSysInfo(p, maxSysReqs, maxSysAnom, sysReads) ==
    [p EXCEPT !.maxSysReqs = maxSysReqs, !.maxSysAnom = maxSysAnom,
              !.sysReads = sysReads]

Sampling(p) ==
    \/ Advance(p)
    \/ CollectStart
    \/ CpuMemResolve(p)
    \/ CpuMemFail(p)
    \/ DiskResolve(p)
    \/ DiskFail(p)
    \/ InitResolve(p)
    \/ InitReject(p)

\* the first seconds of the process, every host answer of the model
Next ==
    \/ Sampling(Profile(MaxTime, MaxAnomalies, CpuMemReads, DiskReads, RandomStreams))
    \/ GetMetrics
    \/ GetAlerts
Spec == Init /\ [][Next]_vars

\* the first half minute: the buffer fills up and the first eviction happens
NextMid ==
    \/ Sampling(Profile(MaxTimeMid, MaxAnomMid, CpuMemReadsFew, DiskReadsFew, RandomStreamsFew))
    \/ ServicesTick
    \/ GetMetrics
SpecMid == Init /\ [][NextMid]_vars

\* the first minute: the start-up samples leave the buffer
NextLong ==
    \/ Sampling(Profile(MaxTimeLong, MaxAnomLong, CpuMemReadsFew, DiskReadsFew, RandomStreamsFew))
    \/ ServicesTick
    \/ GetMetrics
SpecLong == Init /\ [][NextLong]_vars

\* one sampling tick, with answers on both sides of every alert threshold
NextAlerts ==
    \/ Sampling(Profile(MaxTimeAlerts, MaxAnomAlerts, CpuMemReadsEdge,
                        DiskReadsEdge, {"mid"}))
    \/ GetAlerts
SpecAlerts == Init /\ [][NextAlerts]_vars

\* report generation during the first seconds of the process, while the
\* start-up read is still pending (the buffer is empty)
NextReports ==
    \/ Advance(Profile(MaxTimeRep, MaxAnomRep, {}, {}, {}))
    \/ PostGenerate(MaxReports)
    \/ ReportTick(MaxReports)
    \/ GetReports
    \/ GetLatest
SpecReports == Init /\ [][NextReports]_vars

\* the start-up, one sampling tick and two reports, with answers on both
\* sides of every breakpoint of the summary
NextStats ==
    \/ Sampling(Profile(MaxTimeStats, MaxAnomStats, CpuMemReadsBand,
                        DiskReadsBand, RandomStreamsFew))
    \/ PostGenerate(MaxReportsStats)
    \/ ReportTick(MaxReportsStats)
    \/ GetLatest
SpecStats == Init /\ [][NextStats]_vars

\* report generation and the saves it starts, the reports directory
\* existing or not when the process starts
NextPersist ==
    \/ Advance(Profile(MaxTimePersist, MaxAnomPersist, {}, {}, {}))
    \/ PostGenerate(MaxReportsPersist)
    \/ ReportTick(MaxReportsPersist)
    \/ SaveAccess
    \/ SaveMkdir
    \/ SaveWriteReport
    \/ SaveWriteSummary
    \/ GetReports
    \/ GetLatest
SpecPersist == InitWith(BOOLEAN) /\ [][NextPersist]_vars

\* every route during the first seconds of the process, while the sampling
\* runs with nominal and prompt host answers
ApiProfile ==
    WithSysInfo(Profile(MaxTimeApi, 0, {<<CpuNominal, MemNominal>>},
                        {DiskNominal}, {"mid"}),
                MaxCallsApi - nGenerated, MaxSysAnomApi, IdentityReads)
NextApi ==
    \/ Advance(ApiProfile)
    \/ CollectStart
    \/ CpuMemResolve(ApiProfile)
    \/ DiskResolve(ApiProfile)
    \/ InitResolve(ApiProfile)
    \/ SysInfo(ApiProfile)
    \/ PostGenerate(MaxCallsApi - nSysReqs)
    \/ GetMetrics
    \/ GetAlerts
    \/ GetServices
    \/ GetHealth
    \/ GetReports
    \/ GetLatest
SpecApi == Init /\ [][NextApi]_vars

\* system-info requests whose identity reads may never return, while the
\* sampling runs with nominal and prompt host answers
AnswerProfile ==
    WithSysInfo(Profile(MaxTimeAnswer, 0, {<<CpuNominal, MemNominal>>},
                        {DiskNominal}, {"mid"}),
                MaxReqsAnswer, MaxSysAnomAnswer, {IdentityNominal})
NextAnswer ==
    \/ Advance(AnswerProfile)
    \/ CollectStart
    \/ CpuMemResolve(AnswerProfile)
    \/ DiskResolve(AnswerProfile)
    \/ InitResolve(AnswerProfile)
    \/ SysInfo(AnswerProfile)
SpecAnswer == Init /\ [][NextAnswer]_vars

\* the same with the event loop's guarantees: time passes and a timer that
\* is due fires.  Of the host only what the exploration assumes already:
\* the sampling reads answer at once, and so does an identity read when the
\* pending ones cannot all be slow within MaxSysAnomAnswer.
AnswerTimers ==
    /\ WF_vars(Advance(AnswerProfile))
    /\ WF_vars(CollectStart)
    /\ WF_vars(SysInfoFail(AnswerProfile) /\ ev'.kind = "SysInfoTimeout")
AnswerPrompt ==
    /\ WF_vars(CpuMemResolve(AnswerProfile))
    /\ WF_vars(DiskResolve(AnswerProfile))
    /\ WF_vars(InitResolve(AnswerProfile))
    /\ WF_vars(sysAnom + Cardinality({r \in sysReqs : ~r.slow}) > MaxSysAnomAnswer
               /\ SysInfoResolve(AnswerProfile))
SpecAnswerLive == SpecAnswer /\ AnswerTimers /\ AnswerPrompt

\* system-info requests over the first minute, while the sampling runs with
\* nominal and prompt host answers
SysInfoProfile ==
    WithSysInfo(Profile(MaxTimeSys, 0, {<<CpuNominal, MemNominal>>},
                        {DiskNominal}, {"mid"}),
                MaxSysReqs, MaxSysAnom, IdentityReadsFew)
NextSysInfo ==
    \/ Advance(SysInfoProfile)
    \/ CollectStart
    \/ CpuMemResolve(SysInfoProfile)
    \/ DiskResolve(SysInfoProfile)
    \/ InitResolve(SysInfoProfile)
    \/ ServicesTick
    \/ SysInfo(SysInfoProfile)
SpecSysInfo == Init /\ [][NextSysInfo]_vars

\* the three intervals, failing host reads and failing saves, and the
\* termination signal at any moment
ShutdownProfile ==
    Profile(MaxTimeShut, MaxEventsShut - nGenerated, CpuMemReadsFew,
            DiskReadsFew, {"mid"})
NextShutdown ==
    \/ Sampling(ShutdownProfile)
    \/ ServicesTick
    \/ ReportTick(MaxEventsShut - anom)
    \/ SaveAccess
    \/ SaveMkdir
    \/ SaveWriteReport
    \/ SaveWriteSummary
    \/ Sigint
SpecShutdown == Init /\ [][NextShutdown]_vars

\* the first seconds of the process with a host that answers late or not
\* at all: a read may stay pending until its timeout, or be rejected
HungProfile ==
    Profile(MaxTimeHung, MaxAnomHung, {<<CpuNominal, MemNominal>>},
            {DiskNominal}, {"mid"})
NextHung ==
    \/ Sampling(HungProfile)
    \/ ServicesTick
SpecHung == Init /\ [][NextHung]_vars

\* the same with the event loop's guarantees: time passes, a timer that is
\* due fires (the intervals and the timeouts racing the reads).  Nothing is
\* assumed of the host but what the exploration assumes already: when the
\* pending reads cannot all be slow within MaxAnomHung, one of them answers
\* at once.
HungTimers ==
    /\ WF_vars(Advance(HungProfile))
    /\ WF_vars(CollectStart)
    /\ WF_vars(ServicesTick)
    /\ WF_vars(CpuMemFail(HungProfile) /\ ev'.kind = "CollectTimeout")
    /\ WF_vars(DiskFail(HungProfile) /\ ev'.disk = "timeout")
HungPrompt ==
    LET pending == Cardinality({t \in ticks : ~t.slow})
                   + (IF initPhase = "reading" THEN 1 ELSE 0)
    IN  WF_vars(anom + pending > MaxAnomHung
                /\ (\/ CpuMemResolve(HungProfile)
                    \/ DiskResolve(HungProfile)
                    \/ InitResolve(HungProfile)))
SpecHungLive == SpecHung /\ HungTimers /\ HungPrompt

\* the health checks of the first seconds, the start-up read and the
\* sampling ticks before the first periodic check being free to fail
HealthProfile ==
    Profile(MaxTimeHealth, MaxAnomHealth, {<<CpuNominal, MemNominal>>},
            {DiskNominal}, {"mid"})
NextHealth ==
    \/ Sampling(HealthProfile)
    \/ ServicesTick
    \/ GetServices
SpecHealth == Init /\ [][NextHealth]_vars

\* reports generated between sampling ticks that raise and clear an alert
SnapProfile ==
    Profile(MaxTimeSnap, MaxAnomSnap,
            {<<CpuNominal, MemNominal>>, <<CpuHigh, MemNominal>>},
            {DiskNominal}, {"mid"})
NextSnap ==
    \/ Sampling(SnapProfile)
    \/ PostGenerate(MaxReportsSnap)
    \/ ReportTick(MaxReportsSnap)
SpecSnap == Init /\ [][NextSnap]_vars

\* a report generated during the first half minute, the start-up read
\* free to return late
LateProfile ==
    Profile(MaxTimeLate, MaxAnomLate, {<<CpuNominal, MemNominal>>},
            {DiskNominal}, {"mid"})
NextLate ==
    \/ Sampling(LateProfile)
    \/ ServicesTick
    \/ PostGenerate(MaxReportsLate)
    \/ ReportTick(MaxReportsLate)
SpecLate == Init /\ [][NextLate]_vars

\* host reads that complete after their timer has fired
OrphanProfile ==
    WithLateReads(
        WithSysInfo(Profile(MaxTimeOrphan, MaxSlowOrphan - sysAnom,
                            {<<CpuNominal, MemNominal>>}, {DiskNominal}, {"mid"}),
                    MaxReqsOrphan, MaxSlowOrphan - anom, {IdentityNominal}))
NextOrphans ==
    \/ Sampling(OrphanProfile)
    \/ SysInfo(OrphanProfile)
    \/ LateResult(OrphanProfile)
SpecOrphans == Init /\ [][NextOrphans]_vars

\* the page polling during the first seconds of the process, its calls
\* free to fail, while the sampling runs with nominal and prompt answers
ClientProfile ==
    Profile(MaxTimeClient, 0, {<<CpuNominal, MemNominal>>}, {DiskNominal},
            {"mid"})
NextClient ==
    \/ Advance(ClientProfile)
    \/ CollectStart
    \/ CpuMemResolve(ClientProfile)
    \/ DiskResolve(ClientProfile)
    \/ InitResolve(ClientProfile)
    \/ ClientMount
    \/ ClientInterval(MaxPolls)
    \/ ClientCoreSettle
    \/ ClientInfoSettle
    \/ ClientUnmount
SpecClient == Init /\ [][NextClient]_vars

(***************************************************************************)
(* Properties                                                              *)
(***************************************************************************)
Newest == metricsHistory[Len(metricsHistory)]

\* the alert classes the policy table asks for: cpu > 80, memory > 85, disk > 90
ExpectedAlertIds(m) ==
    (IF m.cpu > 80000 THEN {1} ELSE {})
    \cup (IF m.memory > 85000 THEN {2} ELSE {})
    \cup (IF m.disk > 90000 THEN {3} ELSE {})

\* sampling ticks started so far: the interval has fired at 3, 6, ...
TicksStarted == (nextMetrics \div MetricsPeriod) - 1

\* C1: in every reachable state the metrics buffer holds at most 20 samples,
\* also when initializeData completes after sampling ticks have appended.
C1_BufferAtMostTwenty == Len(metricsHistory) <= 20

\* C2: once sampling ticks have appended 20 + k samples (k >= 0), the buffer
\* holds exactly the last 20 of them, in the order they were appended.
C2_LastTwentyAppends ==
    nAppended >= 20 =>
        /\ Len(metricsHistory) = 20
        /\ \A i \in 1..20 :
              /\ metricsHistory[i].src = "tick"
              /\ metricsHistory[i].n = nAppended - 20 + i

\* C3: every sampling tick appends a sample, also when its CPU/memory read
\* throws or times out: each tick started has appended or is still running.
C3_EveryTickAppends == TicksStarted = nAppended + Cardinality(ticks)

InRange(v) == 0 <= v /\ v <= 100000

\* C4: every sample in the buffer has cpu, memory and disk within [0,100].
C4_PercentagesInRange ==
    \A i \in 1..Len(metricsHistory) :
        /\ InRange(metricsHistory[i].cpu)
        /\ InRange(metricsHistory[i].memory)
        /\ InRange(metricsHistory[i].disk)

\* C5: the alerts raised for a sample are exactly: id 1 (critical) iff
\* cpu > 80, id 2 (warning) iff memory > 85, id 3 (critical) iff disk > 90,
\* each once and nothing else; the thresholds are strict.
C5_AlertsByThreshold ==
    ev.kind = "CollectDone" =>
        /\ AlertIds(currentAlerts) = ExpectedAlertIds(Newest)
        /\ Len(currentAlerts) = Cardinality(AlertIds(currentAlerts))
        /\ \A i \in 1..Len(currentAlerts) :
              currentAlerts[i].severity =
                  (IF currentAlerts[i].id = 2 THEN "warning" ELSE "critical")
        /\ \A i, j \in 1..Len(currentAlerts) :
              i < j => currentAlerts[i].id < currentAlerts[j].id

\* a sample with cpu exactly 80.0 (no cpu alert) for which the memory and
\* the disk alert fire together
C5_Witness ==
    /\ ev.kind = "CollectDone"
    /\ Newest.cpu = 80000
    /\ AlertIds(currentAlerts) = {2, 3}

\* C6: after a sampling tick appended sample s the alert set is the
\* evaluation of s alone: a class active before the tick is gone unless s
\* exceeds its threshold, and every alert was raised by this evaluation.
C6_AlertsRecomputed ==
    ev.kind = "CollectDone" =>
        /\ \A id \in ev.pre :
              id \notin ExpectedAlertIds(Newest) => id \notin AlertIds(currentAlerts)
        /\ Len(currentAlerts) = Cardinality(ExpectedAlertIds(Newest))
        /\ \A i \in 1..Len(currentAlerts) :
              /\ currentAlerts[i].timestamp = now
              /\ currentAlerts[i].description =
                    (CASE currentAlerts[i].id = 1 -> Newest.cpu
                       [] currentAlerts[i].id = 2 -> Newest.memory
                       [] currentAlerts[i].id = 3 -> Newest.disk)

\* the cpu alert was active before the tick and the tick's sample cleared it
C6_Witness ==
    /\ ev.kind = "CollectDone"
    /\ 1 \in ev.pre
    /\ currentAlerts = <<>>

\* C7: at most one collectMetrics invocation is in flight at any time.
C7_OneTickInFlight == Cardinality(ticks) <= 1

\* one whole write step of a sampling tick: the sample is appended and, when
\* the buffer was full, the oldest one is gone
WholeTickWrite ==
    LET m == metricsHistory'[Len(metricsHistory')]
    IN  /\ Len(metricsHistory') > 0
        /\ m.src = "tick"
        /\ metricsHistory' =
              (IF Len(metricsHistory) >= 20 THEN Tail(metricsHistory)
                                            ELSE metricsHistory) \o <<m>>
\* one whole write step of the start-up: all ten samples are appended
WholeInitWrite ==
    /\ Len(metricsHistory') = Len(metricsHistory) + 10
    /\ SubSeq(metricsHistory', 1, Len(metricsHistory)) = metricsHistory
    /\ \A k \in 1..10 :
          /\ metricsHistory'[Len(metricsHistory) + k].src = "init"
          /\ metricsHistory'[Len(metricsHistory) + k].n = k

\* C8: GET /api/metrics never observes a partially mutated buffer: every
\* change of the buffer is one whole write step (append and eviction of a
\* tick together, the ten start-up samples together), and a response is the
\* buffer as it stands between two such steps.
C8_ReadsSeeWholeWrites ==
    [][ /\ resp'.ep = "metrics" =>
              /\ resp'.body = metricsHistory
              /\ metricsHistory' = metricsHistory
        /\ metricsHistory' # metricsHistory =>
              WholeTickWrite \/ WholeInitWrite ]_vars

\* a response taken while a sampling tick is in flight, after the first
\* eviction: twenty samples, the oldest start-up sample gone
C8_Witness ==
    /\ resp.ep = "metrics"
    /\ ticks # {}
    /\ Len(resp.body) = 20
    /\ resp.body[1].src = "init"
    /\ resp.body[1].n = 2

\* C9: the buffer returned by GET /api/metrics is ordered oldest-first:
\* capture timestamps never decrease from the first to the last element.
C9_OldestFirst ==
    resp.ep = "metrics" =>
        \A i \in 1..(Len(resp.body) - 1) :
            resp.body[i].timestamp <= resp.body[i + 1].timestamp

\* C10: the report history holds at most 24 reports, and they are the last
\* 24 generated (all of them while fewer were generated), in generation order.
C10_LastTwentyFourReports ==
    /\ Len(reportHistory) <= 24
    /\ Len(reportHistory) = Min(nGenerated, 24)
    /\ \A i \in 1..Len(reportHistory) :
          reportHistory[i].n = nGenerated - Len(reportHistory) + i

\* a periodic generation past the cap: 24 reports kept, the first ones gone
C10_Witness ==
    /\ ev.kind = "ReportTick"
    /\ nGenerated > 24
    /\ Len(reportHistory) = 24
    /\ reportHistory[1].n = nGenerated - 23

\* C11: when GET /api/reports/latest is the step right after POST
\* /api/reports/generate returned report r, it answers 200 with the report
\* whose id is r.id (the very report generated), also at the cap of 24.
C11_LatestIsJustGenerated ==
    [][ (resp.ep = "generate" /\ resp'.ep = "latest") =>
            /\ resp'.status = 200
            /\ resp'.body.id = resp.body.id
            /\ resp'.body.n = resp.body.n ]_vars

\* an on-demand generation past the cap: the report returned is the one
\* getLatestReport gives
C11_Witness ==
    /\ ev.kind = "PostGenerate"
    /\ nGenerated > 24
    /\ Len(reportHistory) = 24
    /\ reportHistory[24].id = resp.body.id
    /\ reportHistory[24].n = resp.body.n

\* C12: no two reports of the retained history share an id, also when two
\* generations happen at the same clock value.
C12_UniqueReportIds ==
    \A i, j \in 1..Len(reportHistory) :
        i # j => reportHistory[i].id # reportHistory[j].id

\* the step just taken generated a report: it is the last of the history,
\* and the buffer it was given is the buffer as it stands
Generated == ev.kind \in {"PostGenerate", "ReportTick"}
LastReport == reportHistory[Len(reportHistory)]
BufferValues(field) ==
    [i \in 1..Len(metricsHistory) |-> metricsHistory[i][field]]

\* x is v rounded to one decimal (halves go up)
NearestTenth(x, v) == x % 100 = 0 /\ x - 50 <= v /\ v < x + 50
\* avg is the arithmetic mean of q rounded to one decimal
IsRoundedMean(avg, q) ==
    /\ avg % 100 = 0
    /\ (avg - 50) * Len(q) <= SeqSum(q)
    /\ SeqSum(q) < (avg + 50) * Len(q)
IsLargest(v, q)  == (\E i \in 1..Len(q) : q[i] = v) /\ (\A i \in 1..Len(q) : q[i] <= v)
IsSmallest(v, q) == (\E i \in 1..Len(q) : q[i] = v) /\ (\A i \in 1..Len(q) : v <= q[i])

\* one metric's stats over the values q; exact: max and min are values of q
\* themselves, otherwise they are values of q rounded to one decimal
StatsAsClaimed(st, q, exact) ==
    /\ st.avg.def /\ IsRoundedMean(st.avg.v, q)
    /\ st.max.def
    /\ \E v \in {q[i] : i \in 1..Len(q)} :
          /\ IsLargest(v, q)
          /\ IF exact THEN st.max.v = v ELSE NearestTenth(st.max.v, v)
    /\ st.min.def
    /\ \E v \in {q[i] : i \in 1..Len(q)} :
          /\ IsSmallest(v, q)
          /\ IF exact THEN st.min.v = v ELSE NearestTenth(st.min.v, v)
    /\ st.current = Num(q[Len(q)])

\* C13 as stated: for a non-empty buffer each metric's stats cover all the
\* samples: avg is the mean rounded to one decimal, max and min are the
\* largest and the smallest value, current is the newest sample's value.
C13_StatsExactExtremes ==
    (Generated /\ Len(metricsHistory) > 0) =>
        /\ LastReport.metrics.dataPoints = Len(metricsHistory)
        /\ \A f \in {"cpu", "memory", "disk"} :
              StatsAsClaimed(LastReport.metrics[f], BufferValues(f), TRUE)

\* C13 as amended: for a non-empty buffer each metric's stats cover all the
\* samples: avg is the mean rounded to one decimal, max and min are the
\* largest and the smallest value each rounded to one decimal, current is
\* the newest sample's value.
C13_StatsOverWholeBuffer ==
    (Generated /\ Len(metricsHistory) > 0) =>
        /\ LastReport.metrics.dataPoints = Len(metricsHistory)
        /\ \A f \in {"cpu", "memory", "disk"} :
              StatsAsClaimed(LastReport.metrics[f], BufferValues(f), FALSE)

\* a report over the ten start-up samples and a tick sample whose values
\* differ, the largest disk value having two decimals
C13_Witness ==
    /\ Generated
    /\ Len(metricsHistory) = 11
    /\ LastReport.metrics.cpu.max # LastReport.metrics.cpu.min
    /\ \A i \in 1..11 : metricsHistory[i].disk # LastReport.metrics.disk.max.v

\* C14: generateReport on an empty buffer returns a report whose per-metric
\* stats are zeroed (avg, max, min and current all 0) with a data point
\* count of 0, and the report is appended to the history.
C14_EmptyBufferZeroStats ==
    (Generated /\ Len(metricsHistory) = 0) =>
        /\ LastReport.n = nGenerated
        /\ LastReport.metrics.dataPoints = 0
        /\ \A f \in {"cpu", "memory", "disk"} :
              /\ LastReport.metrics[f].avg = Num(0)
              /\ LastReport.metrics[f].max = Num(0)
              /\ LastReport.metrics[f].min = Num(0)
              /\ LastReport.metrics[f].current = Num(0)

\* the band the summary rules give an average: above high, above moderate
\* (both strict), or neither
BandAsClaimed(avg, high, moderate) ==
    IF avg.def /\ avg.v > high * 1000 THEN "HIGH"
    ELSE IF avg.def /\ avg.v > moderate * 1000 THEN "MODERATE"
    ELSE "NORMAL"

\* C15: the summary has exactly four lines, cpu, memory, disk, alerts in
\* this order; a metric line gives the band of that metric's average: cpu
\* > 80 high, > 50 moderate, else normal; memory > 85 / > 70; disk > 90 /
\* > 80; the last line gives the number of active alerts, or none.
C15_SummaryBands ==
    Generated =>
        LET r == LastReport
            line == r.summary
        IN  /\ Len(line) = 4
            /\ <<line[1].about, line[2].about, line[3].about, line[4].about>>
                  = <<"CPU", "MEMORY", "DISK", "ALERTS">>
            /\ line[1].band = BandAsClaimed(r.metrics.cpu.avg, 80, 50)
            /\ line[2].band = BandAsClaimed(r.metrics.memory.avg, 85, 70)
            /\ line[3].band = BandAsClaimed(r.metrics.disk.avg, 90, 80)
            /\ \A k \in 1..3 : line[k].shown = r.metrics[
                    CASE k = 1 -> "cpu" [] k = 2 -> "memory" [] k = 3 -> "disk"].avg
            /\ line[4].band = (IF Len(currentAlerts) = 0 THEN "NONE" ELSE "ACTIVE")
            /\ line[4].shown = Num(Len(currentAlerts))

\* a cpu average of exactly 80.0 reported as moderate
C15_Witness ==
    /\ Generated
    /\ LastReport.metrics.cpu.avg = Num(80000)
    /\ LastReport.summary[1].band = "MODERATE"

\* C16: a failure of report persistence (directory creation or a file
\* write) does not propagate: the step in which it is caught leaves the
\* history as it is and sends no error, and POST /api/reports/generate
\* answers 200 with the report, which is in the history.
C16_SaveFailureContained ==
    [][ /\ ev'.kind = "SaveFailed" =>
              /\ reportHistory' = reportHistory
              /\ nGenerated' = nGenerated
              /\ resp' = NoResp
        /\ resp'.ep = "generate" =>
              /\ resp'.status = 200
              /\ resp'.body.n = nGenerated'
              /\ resp'.body = reportHistory'[Len(reportHistory')] ]_vars

\* every save has failed, nothing is on disk, and every report generated
\* is in the history
C16_Witness ==
    /\ ev.kind = "SaveFailed"
    /\ saves = {}
    /\ fs.reports = {}
    /\ nGenerated = 2
    /\ Len(reportHistory) = 2

\* C17: GET /api/reports/latest answers 404 exactly when no report has been
\* generated since the process started; otherwise it answers 200 with the
\* last element of the history.
C17_NotFoundOnlyBeforeFirstReport ==
    resp.ep = "latest" =>
        /\ resp.status \in {200, 404}
        /\ (resp.status = 404) <=> (nGenerated = 0)
        /\ resp.status = 200 => resp.body = reportHistory[Len(reportHistory)]

\* the latest report is served after reports have been evicted
C17_Witness ==
    /\ resp.ep = "latest"
    /\ resp.status = 200
    /\ nGenerated > 24
    /\ resp.body.n = nGenerated

\* C18: a 5xx response comes only from GET /api/system-info, and only from
\* a request whose identity read failed (was rejected or unusable) or timed
\* out; the other routes answer 200 in every state, the latest-report
\* route 200 or 404.
C18_ServerErrorOnlyFromSystemInfo ==
    /\ resp.status >= 500 =>
          /\ resp.ep = "system-info"
          /\ ev.kind \in {"SysInfoFailed", "SysInfoTimeout"}
    /\ resp.ep \in {"metrics", "alerts", "services", "health", "reports",
                     "generate"} => resp.status = 200
    /\ resp.ep = "latest" => resp.status \in {200, 404}
    /\ (resp.ep = "system-info" /\ ev.kind \in {"SysInfoCached", "SysInfoFetched"})
          => resp.status = 200

\* a system-info request answered 500 because its reads did not settle
\* within five seconds
C18_Witness ==
    /\ resp.ep = "system-info"
    /\ resp.status = 500
    /\ ev.kind = "SysInfoTimeout"
    /\ ~cachedSystemInfo.def

\* C19: while a disk reading is cached, a sampling tick that started at or
\* after the time recorded for the reading and no more than 30 seconds
\* later issues no disk read and appends a sample whose disk value is the
\* cached value rounded to one decimal; a tick issues a disk read only when
\* nothing is cached or it started more than 30 seconds after that time.
\* (The tick is looked at in the step in which its CPU/memory read settles.)
C19_DiskCacheThirtySeconds ==
    [][ \A t \in ticks \ ticks' :
          t.phase = "cpu" =>
            LET reads == \E d \in ticks' \ ticks :
                            d.phase = "disk" /\ d.start = t.start
            IN  /\ (/\ cachedDiskData.def
                    /\ lastDiskCheck <= t.start
                    /\ t.start - lastDiskCheck <= 30) =>
                      /\ ~reads
                      /\ nAppended' = nAppended + 1
                      /\ NearestTenth(metricsHistory'[Len(metricsHistory')].disk,
                                      cachedDiskData.use)
                /\ reads =>
                      (~cachedDiskData.def \/ t.start - lastDiskCheck > 30) ]_vars

\* a system-info request either reads upstream or is answered from the cache
SysInfoArrives == ev'.kind \in {"SysInfoRead", "SysInfoCached"}
AnsweredFromCache ==
    /\ ev'.kind = "SysInfoCached"
    /\ sysReqs' = sysReqs
    /\ resp'.status = 200
    /\ resp'.body = cachedSystemInfo.v
    /\ cachedSystemInfo' = cachedSystemInfo

StepFailed == ev'.kind \in {"CollectFailed", "CollectTimeout", "SaveFailed"}

\* C21: a failed tick never halts its cadence: the step in which a sampling
\* tick fails (read rejected, unusable or timed out) or a report's save
\* fails leaves the process running with its three intervals set and their
\* due times as they were; while the process runs the sampling interval is
\* due within 3 seconds and the health check within 10; and a tick whose
\* reads succeed appends its sample whatever failed before it.
C21_FailedTickKeepsCadence ==
    [][ /\ StepFailed =>
              /\ proc' = Started
              /\ nextMetrics' = nextMetrics
              /\ nextServices' = nextServices
        /\ proc'.alive =>
              /\ proc' = Started
              /\ now' <= nextMetrics' /\ nextMetrics' <= now' + MetricsPeriod
              /\ now' <= nextServices' /\ nextServices' <= now' + ServicesPeriod
        /\ \A t \in ticks \ ticks' :
              (ticks' \subseteq ticks /\ ~StepFailed) =>
                  /\ nAppended' = nAppended + 1
                  /\ metricsHistory'[Len(metricsHistory')].timestamp = t.start
                  /\ metricsHistory'[Len(metricsHistory')].n = nAppended' ]_vars

\* the tick of second 3 failed and the tick of second 6 appended its sample
C21_Witness ==
    /\ ev.kind = "CollectDone"
    /\ ticks = {}
    /\ nextMetrics = 9
    /\ nAppended = 1
    /\ metricsHistory[Len(metricsHistory)].timestamp = 6
    /\ proc = Started

\* C22: the three cadences are independent: in every state in which a
\* sampling tick is suspended on a slow host read, the health check runs
\* when its interval is due, and a report tick and a request to any route
\* can run at once, none of them waiting for the tick (one more report or
\* system-info request than the exploration allows is asked about).
C22_CadencesIndependent ==
    (Running /\ \E t \in ticks : t.slow) =>
        /\ now = nextServices => ENABLED ServicesTick
        /\ ENABLED ReportTick(nGenerated + 1)
        /\ ENABLED PostGenerate(nGenerated + 1)
        /\ ENABLED GetMetrics
        /\ ENABLED GetAlerts
        /\ ENABLED GetServices
        /\ ENABLED GetHealth
        /\ ENABLED GetReports
        /\ ENABLED GetLatest
        /\ ENABLED SysInfoRequest(WithSysInfo(HungProfile, nSysReqs + 1,
                                              0, IdentityReadsFew))

\* the health check of second 10 has run while the sampling tick of second
\* 9 is still waiting for its host read
C22_Witness ==
    /\ ev.kind = "ServicesTick"
    /\ now = 10
    /\ \E t \in ticks : t.slow /\ t.start = 9
    /\ serviceStatus = checkServices(metricsHistory)

\* the sampling tick started at second s is suspended at one of its awaits
InFlight(s) == \E t \in ticks : t.start = s
\* the ticks whose two timeouts both lie within the seconds explored
TicksWithinHorizon ==
    {s \in 1..MaxTimeHung :
        /\ s % MetricsPeriod = 0
        /\ s + CpuMemTimeout + DiskTimeout <= MaxTimeHung}

\* C23: every sampling tick that starts eventually finishes, also when its
\* CPU/memory read or its disk read never returns: each read is raced
\* against a timeout, so the tick ends by appending or as a logged failure.
C23_TickFinishes ==
    \A s \in TicksWithinHorizon : InFlight(s) ~> ~InFlight(s)

\* the tick of second 3 appended its sample at second 8: its disk read
\* never returned
C23_Witness ==
    /\ ev.kind = "CollectDone"
    /\ ev.disk = "timeout"
    /\ now = 3 + DiskTimeout
    /\ metricsHistory[Len(metricsHistory)].timestamp = 3
    /\ ~InFlight(3)

\* the n-th system-info request is suspended at its await
Unanswered(n) == \E r \in sysReqs : r.n = n
\* ... and its timeout lies within the seconds explored
UnansweredWithinHorizon(n) ==
    \E r \in sysReqs : r.n = n /\ r.start + SysInfoTimeout <= MaxTimeAnswer

\* C24: every API request is answered, also when host reads never return:
\* a system-info request that has to read is answered at the latest when
\* its timeout fires, and a request to any other route can be served in
\* every state, whatever sampling tick or start-up read is in flight.
C24_EveryRequestAnswered ==
    /\ \A n \in 1..MaxReqsAnswer : UnansweredWithinHorizon(n) ~> ~Unanswered(n)
    /\ [](/\ ENABLED GetMetrics
           /\ ENABLED GetAlerts
           /\ ENABLED GetServices
           /\ ENABLED GetHealth
           /\ ENABLED GetReports
           /\ ENABLED GetLatest
           /\ ENABLED PostGenerate(nGenerated + 1))

\* the request that arrived at second 0, before the start-up read had
\* returned, was answered 500 at second 5, its identity read never having
\* returned
C24_Witness ==
    /\ ev.kind = "SysInfoTimeout"
    /\ resp = Reply("system-info", 500, <<>>)
    /\ now = SysInfoTimeout
    /\ nSysReqs = 1
    /\ sysReqs = {}
    /\ Len(metricsHistory) > 0

\* the termination signal has been handled
Signalled == proc # Started

\* C25: once SIGINT has been handled no sampling, health-check or report
\* tick runs and nothing is mutated any more: the handling step clears the
\* sampling and the health-check interval and ends the process, leaving
\* everything else as it is, and every later step leaves the buffer, the
\* alerts, the caches, the service status and the reports unchanged; a
\* sampling tick in flight at that moment stays where it was.
C25_NothingAfterSigint ==
    [][ /\ ev'.kind = "Sigint" =>
              /\ ~proc'.alive
              /\ ~proc'.metricsInterval /\ ~proc'.servicesInterval
              /\ UNCHANGED <<metricsHistory, currentAlerts, serviceStatus,
                             cachedDiskData, lastDiskCheck, reportHistory,
                             ticks, saves, fs>>
        /\ Signalled =>
              /\ ev'.kind \notin {"CollectStart", "ServicesTick", "ReportTick"}
              /\ UNCHANGED <<metricsHistory, currentAlerts, serviceStatus,
                             cachedDiskData, lastDiskCheck, reportHistory,
                             ticks, saves, fs, nAppended, nGenerated,
                             nextMetrics, nextServices, now>> ]_vars

\* the signal was handled while a sampling tick was waiting for its disk
\* read and a report's save was under way
C25_Witness ==
    /\ ev.kind = "Sigint"
    /\ ~proc.alive
    /\ \E t \in ticks : t.phase = "disk"
    /\ saves # {}

\* the step just taken ran checkServices
HealthChecked == ev.kind \in {"ServicesTick", "InitDone", "InitFallback"}

C27_FailedPollDisconnects ==
    (ev.kind = "PollDone" /\ client.lastFailed) =>
        /\ ~client.isLive
        /\ client.retryCount > 0
        /\ client.isMounted

\* C28: the start-up initialization appends exactly ten samples, one
\* second apart with the last at the current time, in one step, from the
\* host's answer or from the fallback values, and the initial health check
\* runs only after them, so that the first service status reports Metrics
\* as healthy.  The buffer is never emptied, so a first status of healthy
\* means that no status ever reports Metrics as anything else.
C28_FirstStatusHealthy ==
    serviceStatus # <<>> => serviceStatus[3].status = "healthy"

\* C29: when the disk read of a sampling tick rejects, times out or returns
\* no volumes, the tick still appends a sample, whose disk value is the
\* cached disk value (0 when nothing is cached), and the cache and its
\* timestamp stay as they were, so that the next tick reads the disk again.
C29_DiskFailureUsesCache ==
    [][ ev'.disk \in {"rejected", "timeout", "empty"} =>
          /\ ev'.kind = "CollectDone"
          /\ WholeTickWrite
          /\ metricsHistory'[Len(metricsHistory')].disk =
                 Round1(CachedDiskUsage(cachedDiskData))
          /\ UNCHANGED <<cachedDiskData, lastDiskCheck>>
          /\ DiskReadNeeded(cachedDiskData', nextMetrics, lastDiskCheck')
      ]_vars

\* C30: the buffer only shrinks by capacity eviction: a step that is not
\* the append of a sampling tick removes no sample, the append removes
\* exactly the oldest sample and only when the length exceeded 20 after it,
\* and so the length never decreases from one state to the next.
C30_OnlyCapacityEviction ==
    [][ /\ Len(metricsHistory') >= Len(metricsHistory)
        /\ IF ev'.kind = "CollectDone"
           THEN LET m == metricsHistory'[Len(metricsHistory')]
                IN  metricsHistory' =
                       IF Len(metricsHistory) + 1 > HistoryCap
                       THEN Tail(metricsHistory) \o <<m>>
                       ELSE metricsHistory \o <<m>>
           ELSE SubSeq(metricsHistory', 1, Len(metricsHistory)) = metricsHistory
      ]_vars

\* a tick has just evicted the oldest start-up sample from a full buffer
C30_Witness ==
    /\ ev.kind = "CollectDone"
    /\ Len(metricsHistory) = HistoryCap
    /\ metricsHistory[1].src = "init"
    /\ metricsHistory[1].n = 2

\* C31: a report is immutable after creation: as long as it is retained in
\* the history, no step changes it (its statistics, its alert count, its
\* summary), and the alert details it holds read the same after the step,
\* whatever later alert evaluations do to currentAlerts.
C31_ReportsImmutable ==
    [][ \A i \in 1..Len(reportHistory), j \in 1..Len(reportHistory') :
          reportHistory'[j].n = reportHistory[i].n =>
              /\ reportHistory'[j] = reportHistory[i]
              /\ AlertDetailsOf(reportHistory[i])' =
                     AlertDetailsOf(reportHistory[i])
              /\ AlertDetailsOf(reportHistory[i])' = reportHistory[i].alertDetails
      ]_vars

\* a report made while the CPU alert was active is still in the history,
\* with the alert in it, after a later tick has cleared the alert set and
\* a second report has been generated
C31_Witness ==
    /\ Len(reportHistory) = 2
    /\ Len(reportHistory[1].alertDetails) = 1
    /\ reportHistory[1].alerts = 1
    /\ currentAlerts = <<>>
    /\ reportHistory[2].alertDetails = <<>>

\* C32: whenever every save that was started has completed without error
\* (and so no generation is pending), latest_reports.json holds the report
\* history as it is in memory, however the file writes of two or more
\* generations overlap.
C32_SummaryFileIsHistory ==
    (nGenerated > 0 /\ saves = {} /\ ~saveFailed) =>
        fs.summary = [def |-> TRUE, v |-> reportHistory]

\* C33: every generated report is a snapshot of the state at generation
\* time: its data point count is the buffer length at that moment, hence at
\* most 20, its alert count is the number of its alert details, and its
\* alert details are the alert set of that moment.
C33_ReportIsSnapshot ==
    Generated =>
        /\ LastReport.metrics.dataPoints = Len(metricsHistory)
        /\ LastReport.metrics.dataPoints <= HistoryCap
        /\ LastReport.alerts = Len(LastReport.alertDetails)
        /\ LastReport.alertDetails = currentAlerts
        /\ AlertDetailsOf(LastReport) = currentAlerts

\* C34: the page requests GET /api/system-info at most once per 60 seconds
\* after a successful fetch: a poll that runs less than 60 seconds after
\* the last successful fetch does not issue the request.
C34_InfoOncePerMinute ==
    [][ ev'.kind = "PollCalls" =>
          ~ /\ client.systemInfoLastFetch > 0
            /\ PageClock(now) - client.systemInfoLastFetch < InfoPeriod
      ]_vars

\* C35: in every state with a non-empty buffer the alert set, which is what
\* GET /api/alerts serves, is the alert evaluation of the newest sample of
\* the buffer: also after the start-up has appended its samples and before
\* a first tick completes, and after failed ticks.
C35_AlertsOfNewestSample ==
    Len(metricsHistory) > 0 =>
        /\ AlertIds(currentAlerts) = ExpectedAlertIds(Newest)
        /\ resp.ep = "alerts" => AlertIds(resp.body) = ExpectedAlertIds(Newest)

\* the CPU/memory read of a sampling tick rejected or timed out in this step
ReadFailed == ev'.kind \in {"CollectFailed", "CollectTimeout"} /\ ev'.disk = "none"

\* C36: a sampling tick whose CPU/memory read throws or times out changes
\* nothing: neither its start nor its failure changes the buffer, the alert
\* set, the disk cache or its timestamp, and GET /api/alerts goes on
\* serving the alert set, that of the last appended sample.
C36_FailedReadChangesNothing ==
    [][ /\ (ReadFailed \/ ev'.kind = "CollectStart") =>
              UNCHANGED <<metricsHistory, currentAlerts, cachedDiskData,
                          lastDiskCheck>>
        /\ resp'.ep = "alerts" =>
              /\ resp'.body = currentAlerts
              /\ (ev.kind \in {"CollectFailed", "CollectTimeout"} /\ ev.app = FALSE
                  /\ nAppended > 0 /\ metricsHistory[Len(metricsHistory)].src = "tick")
                  => AlertIds(resp'.body) = ExpectedAlertIds(Newest)
      ]_vars

\* the tick of second 3 raised the CPU alert, the read of the tick of
\* second 6 failed, and the alert is served afterwards
C36_Witness ==
    /\ resp.ep = "alerts"
    /\ AlertIds(resp.body) = {1}
    /\ nAppended = 1
    /\ TicksStarted = 2
    /\ ticks = {}
    /\ metricsHistory[Len(metricsHistory)].src = "tick"

\* C37: once a health check has reported Metrics as healthy no later check
\* reports it as starting, because the buffer, once it holds a sample,
\* never becomes empty again.
C37_HealthyForGood ==
    [][ /\ Len(metricsHistory) > 0 => Len(metricsHistory') > 0
        /\ (serviceStatus # <<>> /\ serviceStatus[3].status = "healthy") =>
              /\ serviceStatus' # <<>>
              /\ serviceStatus'[3].status = "healthy"
              /\ Len(metricsHistory) > 0
      ]_vars

\* the periodic check of second 10 reports Metrics as healthy again, after
\* the start-up check did and three ticks have appended since
C37_Witness ==
    /\ ev.kind = "ServicesTick"
    /\ initPhase = "done"
    /\ nAppended = 3
    /\ metricsHistory[1].src = "init"
    /\ serviceStatus[3].status = "healthy"
    /\ serviceStatus[3].details = 13

C39_DiskCacheNewestRead ==
    [][ /\ lastDiskCheck' >= lastDiskCheck
        /\ ev'.disk = "read" =>
              \A t \in ticks \ ticks' :
                  /\ lastDiskCheck' = t.start
                  /\ cachedDiskData.def => t.start >= lastDiskCheck
      ]_vars

====
